---- MODULE Spec2Model ----
(***************************************************************************)
(* Model of the snapshot publisher: the axum handler handle_snapshot       *)
(* (src/src/main.rs) driving ConfluenceClient::publish_page                *)
(* (src/src/confluence.rs) against the remote page store.                  *)
(*                                                                         *)
(* Every remote request of a publish call is one atomic step at the store; *)
(* the steps of concurrent requests interleave.  The store is the external *)
(* collaborator: it holds pages in creation order, answers a title search  *)
(* with the matching pages, and may answer any request with a non-success  *)
(* status or with a success status whose body does not decode.  A 404      *)
(* answer to a search is given only when no page matches (the store does   *)
(* not deny a page it holds); a non-success answer to a write means the    *)
(* write was not applied.                                                  *)
(***************************************************************************)
EXTENDS Integers, Sequences, FiniteSets, TLC

\* ---------------------------------------------------------------- bounds
\* Number of requests served over a run (sequentially or overlapping).
MaxRequests == 2
\* Longest "families" array of a snapshot payload.
MaxFamilies == 2
\* Longest "families" array of a payload of overlapping requests.
MaxRaceFamilies == 1
\* Levels of nesting below a field of a "changes" object.
MaxDepth == 2
\* Entries of a "changed" array.
MaxChanged == 2
\* Items in a list handed to render_item_table.
MaxItems == 2
\* Categories in a report handed to render_diff_page.
MaxCategories == 3

\* The two worker tasks that may serve requests at the same time.
Procs == {1, 2}

\* ------------------------------------------------------------ constants
None == <<>>
\* PageResult.version = None: the store returned no version metadata.
NoVersion == 0
\* reqwest::StatusCode values the store answers with.
STATUS_OK == 200
NOT_FOUND == 404
STATUS_ERROR == 500
\* axum StatusCode::INTERNAL_SERVER_ERROR of the handlers.
INTERNAL_SERVER_ERROR == 500

\* ------------------------------------------------------------ JSON values
\* A serde_json::Value: its variant and what the variant holds. An object is a
\* function from its keys to their values, so a key occurs once.
JNull == [kind |-> "null", v |-> 0]
JBool(b) == [kind |-> "bool", v |-> b]
JNumber(n) == [kind |-> "number", v |-> n]
JString(s) == [kind |-> "string", v |-> s]
JArray(seq) == [kind |-> "array", v |-> seq]
JObject(map) == [kind |-> "object", v |-> map]
EmptyMap == <<>>

is_null(value) == value.kind = "null"
is_array(value) == value.kind = "array"
is_object(value) == value.kind = "object"
contains_key(obj, key) == key \in DOMAIN obj

\* The keys the payloads use, in the order a serde_json::Map iterates them
\* (sorted by key).
KeyOrder ==
    << "a", "a.b", "added", "attributes", "b", "changed", "changes", "code",
       "en_US", "families", "flag", "group", "label (en_US)", "labels", "new",
       "old", "removed", "sv_SE", "type" >>

\* The keys of an object in iteration order.
keys(obj) == SelectSeq(KeyOrder, LAMBDA k : k \in DOMAIN obj)

\* Value::to_string: the compact JSON text of a value.
RECURSIVE to_string(_)
RECURSIVE to_string_items(_)
RECURSIVE to_string_fields(_, _)
to_string_items(seq) ==
    IF seq = <<>> THEN ""
    ELSE to_string(Head(seq))
         \o (IF Tail(seq) = <<>> THEN "" ELSE "," \o to_string_items(Tail(seq)))

to_string_fields(obj, ks) ==
    IF ks = <<>> THEN ""
    ELSE "\"" \o Head(ks) \o "\":" \o to_string(obj[Head(ks)])
         \o (IF Tail(ks) = <<>> THEN "" ELSE "," \o to_string_fields(obj, Tail(ks)))

to_string(value) ==
    CASE value.kind = "null" -> "null"
      [] value.kind = "bool" -> (IF value.v THEN "true" ELSE "false")
      [] value.kind = "number" -> ToString(value.v)
      [] value.kind = "string" -> "\"" \o value.v \o "\""
      [] value.kind = "array" -> "[" \o to_string_items(value.v) \o "]"
      [] value.kind = "object" -> "{" \o to_string_fields(value.v, keys(value.v)) \o "}"

\* ---------------------------------------------------------------- diff.rs
\* The display string of a value.
format_value(value) ==
    CASE value.kind = "string" -> value.v
      [] value.kind = "bool" -> (IF value.v THEN "true" ELSE "false")
      [] value.kind = "number" -> ToString(value.v)
      [] value.kind = "null" -> "null"
      [] OTHER -> to_string(value)

format_values(arr) == [i \in 1..Len(arr) |-> format_value(arr[i])]

FieldChange(field_path, old, new) ==
    [field_path |-> field_path, old |-> old, new |-> new]

NestedFieldDiff(field_path, added, removed) ==
    [field_path |-> field_path, added |-> added, removed |-> removed]

\* The two output lists of flatten_changes.
NoChanges == [out |-> <<>>, nested_out |-> <<>>]

\* The array a key of an object holds, formatted; empty when the key is absent
\* or holds no array.
formatted_array(obj, key) ==
    IF contains_key(obj, key) /\ is_array(obj[key])
    THEN format_values(obj[key].v)
    ELSE <<>>

RECURSIVE flatten_changes(_, _, _)
RECURSIVE flatten_sub_keys(_, _, _, _)
\* The loop of flatten_changes naming each sub-node by its own key, without
\* the path of the node above it.
flatten_sub_keys_DropPrefix(prefix, obj, ks, acc) ==
    IF ks = <<>> THEN acc
    ELSE flatten_sub_keys(prefix, obj, Tail(ks),
             flatten_changes(Head(ks), obj[Head(ks)], acc))

\* The loop of flatten_changes over the sub-keys of a node.
flatten_sub_keys(prefix, obj, ks, acc) ==
    IF ks = <<>> THEN acc
    ELSE flatten_sub_keys(prefix, obj, Tail(ks),
             flatten_changes(prefix \o "." \o Head(ks), obj[Head(ks)], acc))

\* flatten_changes trying the list sub-diff rule before the leaf rule.
flatten_changes_NestedFirst(prefix, value, acc) ==
    IF ~is_object(value) THEN acc
    ELSE LET obj == value.v
             has_added == contains_key(obj, "added") /\ is_array(obj["added"])
             has_removed == contains_key(obj, "removed") /\ is_array(obj["removed"])
         IN  IF has_added \/ has_removed
             THEN [acc EXCEPT !.nested_out =
                      Append(@, NestedFieldDiff(prefix, formatted_array(obj, "added"),
                                                formatted_array(obj, "removed")))]
             ELSE IF contains_key(obj, "old") /\ contains_key(obj, "new")
             THEN [acc EXCEPT !.out =
                      Append(@, FieldChange(prefix, format_value(obj["old"]),
                                            format_value(obj["new"])))]
             ELSE flatten_sub_keys(prefix, obj, keys(obj), acc)

\* flatten_changes taking a node for a list sub-diff only when both "added"
\* and "removed" hold arrays.
flatten_changes_BothArrays(prefix, value, acc) ==
    IF ~is_object(value) THEN acc
    ELSE LET obj == value.v IN
         IF contains_key(obj, "old") /\ contains_key(obj, "new")
         THEN [acc EXCEPT !.out =
                  Append(@, FieldChange(prefix, format_value(obj["old"]),
                                        format_value(obj["new"])))]
         ELSE LET has_added == contains_key(obj, "added") /\ is_array(obj["added"])
                  has_removed == contains_key(obj, "removed") /\ is_array(obj["removed"])
              IN  IF has_added /\ has_removed
                  THEN [acc EXCEPT !.nested_out =
                           Append(@, NestedFieldDiff(prefix,
                                                     formatted_array(obj, "added"),
                                                     formatted_array(obj, "removed")))]
                  ELSE flatten_sub_keys(prefix, obj, keys(obj), acc)

flatten_changes(prefix, value, acc) ==
    IF ~is_object(value) THEN acc
    ELSE LET obj == value.v IN
         IF contains_key(obj, "old") /\ contains_key(obj, "new")
         THEN [acc EXCEPT !.out =
                  Append(@, FieldChange(prefix, format_value(obj["old"]),
                                        format_value(obj["new"])))]
         ELSE LET has_added == contains_key(obj, "added") /\ is_array(obj["added"])
                  has_removed == contains_key(obj, "removed") /\ is_array(obj["removed"])
              IN  IF has_added \/ has_removed
                  THEN [acc EXCEPT !.nested_out =
                           Append(@, NestedFieldDiff(prefix,
                                                     formatted_array(obj, "added"),
                                                     formatted_array(obj, "removed")))]
                  ELSE flatten_sub_keys(prefix, obj, keys(obj), acc)

RECURSIVE flatten_fields(_, _, _)
\* The loop of parse_changed_item over the fields of "changes".
flatten_fields(obj, ks, acc) ==
    IF ks = <<>> THEN acc
    ELSE flatten_fields(obj, Tail(ks), flatten_changes(Head(ks), obj[Head(ks)], acc))

ChangedItem(code, changes, nested_diffs) ==
    [code |-> code, changes |-> changes, nested_diffs |-> nested_diffs]

\* None for an entry that is no object, has no string "code" or no object
\* "changes".
parse_changed_item(value) ==
    IF ~is_object(value) THEN None
    ELSE LET obj == value.v IN
         IF ~contains_key(obj, "code") \/ obj["code"].kind # "string" THEN None
         ELSE IF ~contains_key(obj, "changes") \/ ~is_object(obj["changes"]) THEN None
         ELSE LET flat == flatten_fields(obj["changes"].v, keys(obj["changes"].v),
                                         NoChanges)
              IN  ChangedItem(obj["code"].v, flat.out, flat.nested_out)

\* The array a key of a category holds; empty when absent or no array.
array_or_default(obj, key) ==
    IF contains_key(obj, key) /\ is_array(obj[key]) THEN obj[key].v ELSE <<>>

RECURSIVE filter_map_changed_StopAtMalformed(_)
\* The filter giving up at the first malformed entry: the entries after it are
\* lost too.
filter_map_changed_StopAtMalformed(changed_raw) ==
    IF changed_raw = <<>> THEN <<>>
    ELSE LET item == parse_changed_item(Head(changed_raw))
         IN  IF item = None THEN <<>>
             ELSE <<item>> \o filter_map_changed_StopAtMalformed(Tail(changed_raw))

RECURSIVE filter_map_changed(_)
filter_map_changed(changed_raw) ==
    IF changed_raw = <<>> THEN <<>>
    ELSE LET item == parse_changed_item(Head(changed_raw))
         IN  (IF item = None THEN <<>> ELSE <<item>>)
             \o filter_map_changed(Tail(changed_raw))

CategoryDiff(cat_obj) ==
    [added |-> array_or_default(cat_obj, "added"),
     removed |-> array_or_default(cat_obj, "removed"),
     changed |-> filter_map_changed(array_or_default(cat_obj, "changed"))]

ParseError(what, detail) == [ok |-> FALSE, what |-> what, detail |-> detail]

\* parse_diff_data leaving out a category whose value is no object instead of
\* failing.
parse_diff_data_SkipBadCategory(root) ==
    IF ~is_object(root) THEN ParseError("Diff data root must be an object", "")
    ELSE LET obj == root.v
         IN  [ok |-> TRUE,
              report |-> [k \in { c \in DOMAIN obj : is_object(obj[c]) } |->
                             CategoryDiff(obj[k].v)]]

\* Err, or Ok with the report: one CategoryDiff per category name.
parse_diff_data(root) ==
    IF ~is_object(root) THEN ParseError("Diff data root must be an object", "")
    ELSE LET obj == root.v
             bad == SelectSeq(keys(obj), LAMBDA k : ~is_object(obj[k]))
         IN  IF bad # <<>> THEN ParseError("Category must be an object", Head(bad))
             ELSE [ok |-> TRUE,
                   report |-> [k \in DOMAIN obj |-> CategoryDiff(obj[k].v)]]

priority_fields == <<"code", "type", "group">>

skip_fields ==
    { "code", "type", "group", "labels", "group_labels", "attributes",
      "decimal_places", "default_value", "display_time", "is_read_only",
      "max_characters", "max_file_size", "max_items_count",
      "minimum_input_length", "number_max", "number_min",
      "reference_data_name", "validation_rule" }

Property(label, value) == [label |-> label, value |-> value]

\* The priority fields that are present and not null, in priority order.
priority_props(obj) ==
    LET present == SelectSeq(priority_fields,
                             LAMBDA f : contains_key(obj, f) /\ ~is_null(obj[f]))
    IN  [i \in 1..Len(present) |-> Property(present[i], format_value(obj[present[i]]))]

\* One entry per locale of an object "labels".
label_props(obj) ==
    IF contains_key(obj, "labels") /\ is_object(obj["labels"])
    THEN LET labels == obj["labels"].v
             locales == keys(labels)
         IN  [i \in 1..Len(locales) |->
                 Property("label (" \o locales[i] \o ")", format_value(labels[locales[i]]))]
    ELSE <<>>

\* A value the last loop of extract_item_properties skips.
is_noise(val) ==
    \/ is_null(val)
    \/ val.kind = "bool" /\ ~val.v
    \/ is_array(val) /\ val.v = <<>>
    \/ is_object(val) /\ DOMAIN val.v = {}

\* The last loop keeping false booleans.
other_props_KeepFalse(obj) ==
    LET shown == SelectSeq(keys(obj),
                           LAMBDA k : /\ k \notin skip_fields
                                      /\ \/ ~is_noise(obj[k])
                                         \/ obj[k].kind = "bool")
    IN  [i \in 1..Len(shown) |-> Property(shown[i], format_value(obj[shown[i]]))]

other_props(obj) ==
    LET shown == SelectSeq(keys(obj),
                           LAMBDA k : k \notin skip_fields /\ ~is_noise(obj[k]))
    IN  [i \in 1..Len(shown) |-> Property(shown[i], format_value(obj[shown[i]]))]

extract_item_properties(item) ==
    IF ~is_object(item) THEN << Property("value", to_string(item)) >>
    ELSE priority_props(item.v) \o label_props(item.v) \o other_props(item.v)

\* ------------------------------------------------------------- payloads
\* Titles are tuples of their parts.  ConfluenceConfig.parent_page of the
\* confluence_config rows is empty or names the page "Docs".
NoParent == <<>>
ParentTitle == <<"Docs">>
ParentPages == {NoParent, ParentTitle}

\* An absent label (Option::None).
NoLabel == "<none>"

\* The families of a snapshot payload: one without labels, one whose first
\* label is the other's code.
Fams ==
    { JObject([code |-> JString("a")]),
      JObject([code |-> JString("b"), labels |-> JObject([en_US |-> JString("a")])]) }

\* Snapshot payloads: a root that is no object, or an object whose "families"
\* array holds up to MaxFamilies families.
NonObject == JNull
Payloads ==
    {NonObject} \cup
    { JObject([families |-> JArray(f)]) :
          f \in UNION { [1..n -> Fams] : n \in 0..MaxFamilies } }

\* The string under "code", or "unknown".
get_code(item) ==
    IF is_object(item) /\ contains_key(item.v, "code") /\ item.v["code"].kind = "string"
    THEN item.v["code"].v
    ELSE "unknown"

\* The first value of an object "labels" when that value is a string.
get_label(item) ==
    IF is_object(item) /\ contains_key(item.v, "labels") /\ is_object(item.v["labels"])
    THEN LET labels == item.v["labels"].v
         IN  IF keys(labels) # <<>> /\ labels[Head(keys(labels))].kind = "string"
             THEN labels[Head(keys(labels))].v
             ELSE NoLabel
    ELSE NoLabel

\* The array under a key of the payload, empty when absent or no array.
get_array(obj, key) ==
    IF contains_key(obj, key) /\ is_array(obj[key]) THEN obj[key].v ELSE <<>>

\* render_snapshot_pages: the root title is constant; one child per family,
\* titled "Family: {label} ({code})" with the code standing in for a missing
\* label.  Bodies are identified by the request they were rendered for and the
\* position in the tree (0 = root).
RootTitle == <<"Current model">>

ChildTitle(family) ==
    LET code == get_code(family)
        label == IF get_label(family) = NoLabel THEN code ELSE get_label(family)
    IN  <<"Family", label, code>>

\* The labels a snapshot row can carry.
SnapshotLabels == {NoLabel, "v1"}

\* "Diff: {before} -> {after}", an absent label replaced by "before" / "after".
DiffTitle(before_label, after_label) ==
    << "Diff",
       IF before_label = NoLabel THEN "before" ELSE before_label,
       IF after_label = NoLabel THEN "after" ELSE after_label >>

DiffTitles == { DiffTitle(b, a) : b, a \in SnapshotLabels }

\* The titles a publish call may be given.
Titles == {RootTitle} \cup { ChildTitle(f) : f \in Fams } \cup DiffTitles

\* The diff page: its title and its body (opaque, one per request).
render_diff_page(rid, before_label, after_label, report) ==
    [title |-> DiffTitle(before_label, after_label), body |-> <<rid, 0, "Diff">>]

\* render_snapshot_pages taking a root that is no object for an empty object:
\* the overview sections are rendered (all empty) instead of the placeholder.
render_snapshot_pages_EmptyOnNonObject(rid, data) ==
    LET families == IF is_object(data) THEN get_array(data.v, "families") ELSE <<>>
    IN  [root_title |-> RootTitle, root_body |-> <<rid, 0>>,
         children |-> [i \in 1..Len(families) |->
                         [title |-> ChildTitle(families[i]), body |-> <<rid, i>>]]]

render_snapshot_pages(rid, data) ==
    IF ~is_object(data)
    THEN [root_title |-> RootTitle, root_body |-> <<rid, 0, "No data available">>,
          children |-> <<>>]
    ELSE LET families == get_array(data.v, "families")
         IN  [root_title |-> RootTitle, root_body |-> <<rid, 0>>,
              children |-> [i \in 1..Len(families) |->
                              [title |-> ChildTitle(families[i]), body |-> <<rid, i>>]]]

\* ----------------------------------------------------------- renderer.rs
\* The placeholder character U+2014 of empty cells.
EM_DASH == "U+2014"

\* The labels of a list of property lists, in list order.
RECURSIVE labels_of(_)
labels_of(all_props) ==
    IF all_props = <<>> THEN <<>>
    ELSE [j \in 1..Len(Head(all_props)) |-> Head(all_props)[j].label]
         \o labels_of(Tail(all_props))

\* The column loop of render_item_table: a label is pushed unless columns
\* already contains it.
RECURSIVE unique_columns(_, _)
unique_columns(columns, labels) ==
    IF labels = <<>> THEN columns
    ELSE unique_columns(IF \E k \in 1..Len(columns) : columns[k] = Head(labels)
                        THEN columns ELSE Append(columns, Head(labels)),
                        Tail(labels))

\* prop_map.get(col): collecting the pairs into a map keeps the last value of
\* a label; a label the item does not have gives nothing.
prop_map_get(props, col) ==
    LET hits == { j \in 1..Len(props) : props[j].label = col }
    IN  IF hits = {} THEN None
        ELSE << props[CHOOSE j \in hits : \A k \in hits : k <= j].value >>

\* render_item_table leaving the cell of a missing property empty.
render_item_table_BlankMissing(items) ==
    LET all_props == [i \in 1..Len(items) |-> extract_item_properties(items[i])]
        columns == unique_columns(<<>>, labels_of(all_props))
        cell(props, col) ==
            LET val == prop_map_get(props, col)
            IN  [code |-> col = "code", text |-> IF val = None THEN "" ELSE val[1]]
    IN  [header |-> columns,
         rows |-> [i \in 1..Len(all_props) |->
                     [k \in 1..Len(columns) |-> cell(all_props[i], columns[k])]]]

\* render_item_table: the header lists the columns and every row has one cell
\* per column, a "code" cell set in <code>.  Texts are given as they are before
\* escape_html and capitalize.
render_item_table(items) ==
    LET all_props == [i \in 1..Len(items) |-> extract_item_properties(items[i])]
        columns == unique_columns(<<>>, labels_of(all_props))
        cell(props, col) ==
            LET val == prop_map_get(props, col)
            IN  [code |-> col = "code", text |-> IF val = None THEN EM_DASH ELSE val[1]]
    IN  [header |-> columns,
         rows |-> [i \in 1..Len(all_props) |->
                     [k \in 1..Len(columns) |-> cell(all_props[i], columns[k])]]]

\* ------------------------------------------- inputs of the diff.rs functions
\* A key that is absent from an object under construction.
Absent == [kind |-> "absent", v |-> 0]

Field(key, value) == IF value = Absent THEN EmptyMap ELSE key :> value

\* The nodes a field of "changes" can hold without further nesting: non-objects,
\* leaf changes (also with other keys), list sub-diffs (also half-shaped), and
\* objects that are neither.
LeafChange == JObject([old |-> JString("A"), new |-> JString("B")])

ChangeLeaves ==
    { JNull, JString("x"), JArray(<< JString("x") >>),
      LeafChange,
      JObject([old |-> JNull, new |-> JBool(TRUE)]),
      JObject([old |-> JNumber(1), new |-> JNumber(2),
               added |-> JArray(<< JString("x") >>)]),
      JObject([old |-> JString("A"), new |-> JString("B"), a |-> LeafChange]),
      JObject([old |-> JString("A")]),
      JObject([old |-> JString("A"), added |-> JArray(<< JString("x") >>)]),
      JObject([added |-> JArray(<< JString("x"), JNumber(1) >>)]),
      JObject([added |-> JArray(<< JString("x") >>),
               removed |-> JArray(<< JBool(FALSE) >>)]),
      JObject([added |-> JString("x"), removed |-> JArray(<<>>)]),
      JObject([added |-> JString("x")]),
      JObject([added |-> LeafChange]),
      JObject(EmptyMap) }

\* Field names of "changes" and of the objects nested in it; "a.b" is one key.
FieldKeys == {"a", "b", "a.b"}
SubKeys == {"a", "b"}

\* The nodes with up to d levels of nesting above a ChangeLeaves node.
RECURSIVE ChangeNodes(_)
ChangeNodes(d) ==
    IF d = 0 THEN ChangeLeaves
    ELSE ChangeLeaves \cup { JObject(k :> n) : k \in SubKeys, n \in ChangeNodes(d - 1) }

\* "changes" objects of one field, and of two fields of one level less.
ChangesObjects ==
    { JObject(k :> n) : k \in FieldKeys, n \in ChangeNodes(MaxDepth) }
    \cup { JObject((k1 :> n1) @@ (k2 :> n2)) :
              k1 \in {"a"}, k2 \in {"b", "a.b"},
              n1 \in ChangeNodes(MaxDepth - 1), n2 \in ChangeNodes(MaxDepth - 1) }

\* Entries of a "changed" array: well-formed ones and the malformed shapes.
MalformedEntries ==
    { JString("sku"),
      JObject([changes |-> JObject([a |-> LeafChange])]),
      JObject([code |-> JNumber(1), changes |-> JObject([a |-> LeafChange])]),
      JObject([code |-> JString("sku")]),
      JObject([code |-> JString("sku"), changes |-> JArray(<< LeafChange >>)]) }

ChangedEntries ==
    { JObject([code |-> JString("sku"), changes |-> c]) : c \in ChangesObjects }
    \cup MalformedEntries

\* Arrays of up to n entries.
RECURSIVE ArraysOf(_, _)
ArraysOf(entries, n) ==
    IF n = 0 THEN { <<>> }
    ELSE LET shorter == ArraysOf(entries, n - 1)
         IN  shorter \cup { Append(s, x) : s \in shorter, x \in entries }

\* What a "changed" array is drawn from: two well-formed entries and three
\* malformed ones.
ArrayEntries ==
    { JObject([code |-> JString("p"), changes |-> JObject([a |-> LeafChange])]),
      JObject([code |-> JString("q"),
               changes |-> JObject([b |-> JObject([added |-> JArray(<< JString("x") >>)])])]),
      JObject([changes |-> JObject([a |-> LeafChange])]),
      JObject([code |-> JString("r"), changes |-> JNull]),
      JNumber(1) }

ListOptions == { Absent, JString("x"), JArray(<< JObject([code |-> JString("n")]) >>) }

ChangedOptions ==
    { Absent, JObject(EmptyMap) } \cup { JArray(s) : s \in ArraysOf(ArrayEntries, MaxChanged) }

CategoryObjects ==
    { JObject(Field("added", a) @@ Field("removed", r) @@ Field("changed", c)) :
          a \in ListOptions, r \in ListOptions, c \in ChangedOptions }

\* Diff roots: values that are no object, and objects of one or two
\* categories, either of which may be no object.
DiffRoots ==
    { JNull, JString("x"), JArray(<< JObject(EmptyMap) >>) }
    \cup { JObject(Field("attributes", c) @@ Field("families", f)) :
              c \in CategoryObjects \cup { Absent, JArray(<<>>) },
              f \in { Absent, JNull,
                      JObject([added |-> JArray(<< JObject([code |-> JString("n")]) >>)]) } }

\* Items of an added / removed list: values that are no object, and objects
\* over priority fields, labels, a skipped field and ordinary fields.
Items ==
    { JNull, JString("x"), JArray(<< JNumber(1) >>) }
    \cup { JObject(Field("code", c) @@ Field("type", t) @@ Field("labels", l)
                   @@ Field("attributes", a) @@ Field("flag", f)
                   @@ Field("label (en_US)", x)) :
              c \in { Absent, JNull, JBool(FALSE), JString("x") },
              t \in { Absent, JArray(<<>>) },
              l \in { Absent, JNull, JObject(EmptyMap),
                      JObject([en_US |-> JString("L")]),
                      JObject([en_US |-> JNull]),
                      JObject([en_US |-> JString("L"), sv_SE |-> JBool(FALSE)]) },
              a \in { Absent, JArray(<< JString("x") >>) },
              f \in { Absent, JNull, JBool(FALSE), JBool(TRUE), JArray(<<>>),
                      JObject(EmptyMap), JNumber(1), JArray(<< JNumber(1) >>) },
              x \in { Absent, JNull, JString("x") } }

Inputs == ChangedEntries \cup DiffRoots \cup Items

\* Names that are ordered or re-cased are sequences of their characters' code
\* points (all ASCII here).
to_lowercase(s) == [i \in 1..Len(s) |-> IF s[i] \in 65..90 THEN s[i] + 32 ELSE s[i]]

capitalize(s) ==
    IF s = <<>> THEN <<>>
    ELSE << IF s[1] \in 97..122 THEN s[1] - 32 ELSE s[1] >> \o Tail(s)

\* & < > " replaced by &amp; &lt; &gt; &quot;
RECURSIVE escape_html(_)
escape_html(s) ==
    IF s = <<>> THEN <<>>
    ELSE (CASE Head(s) = 38 -> <<38, 97, 109, 112, 59>>
            [] Head(s) = 60 -> <<38, 108, 116, 59>>
            [] Head(s) = 62 -> <<38, 103, 116, 59>>
            [] Head(s) = 34 -> <<38, 113, 117, 111, 116, 59>>
            [] OTHER -> << Head(s) >>) \o escape_html(Tail(s))

\* String's Ord: a < b lexicographically.
RECURSIVE str_lt(_, _)
str_lt(a, b) ==
    IF b = <<>> THEN FALSE
    ELSE IF a = <<>> THEN TRUE
    ELSE IF Head(a) # Head(b) THEN Head(a) < Head(b)
    ELSE str_lt(Tail(a), Tail(b))

\* The orders in which a HashMap with key set S may yield its entries.
Orders(S) ==
    { o \in [1..Cardinality(S) -> S] : \A i, j \in 1..Cardinality(S) : i # j => o[i] # o[j] }

\* report.iter().collect() when the map yields its keys in the given order.
iter_collect(report, order) ==
    [i \in 1..Len(order) |-> [name |-> order[i], diff |-> report[order[i]]]]

\* x put behind the last entry whose key is not greater than x's.
stable_insert(sorted, x, key_x, keys_sorted) ==
    LET greater == { i \in 1..Len(sorted) : str_lt(key_x, keys_sorted[i]) }
        pos == IF greater = {} THEN Len(sorted) + 1
               ELSE CHOOSE i \in greater : \A j \in greater : i <= j
    IN  SubSeq(sorted, 1, pos - 1) \o << x >> \o SubSeq(sorted, pos, Len(sorted))

\* categories.sort_by_key(|(name, _)| name) : the names compared as they are.
sort_by_key_CaseSensitive(categories) ==
    LET F[k \in 0..Len(categories)] ==
            IF k = 0 THEN <<>>
            ELSE stable_insert(F[k - 1], categories[k], categories[k].name,
                               [i \in 1..(k - 1) |-> F[k - 1][i].name])
    IN  F[Len(categories)]

\* categories.sort_by_key(|(name, _)| name.to_lowercase()) : a stable sort.
sort_by_key_lowercase(categories) ==
    LET F[k \in 0..Len(categories)] ==
            IF k = 0 THEN <<>>
            ELSE stable_insert(F[k - 1], categories[k],
                               to_lowercase(categories[k].name),
                               [i \in 1..(k - 1) |-> to_lowercase(F[k - 1][i].name)])
    IN  F[Len(categories)]

\* The rows of the summary table: the category as shown and the three counts.
render_summary_table(report, order) ==
    LET categories == sort_by_key_lowercase(iter_collect(report, order))
    IN  [i \in 1..Len(categories) |->
            [category |-> capitalize(escape_html(categories[i].name)),
             added |-> Len(categories[i].diff.added),
             removed |-> Len(categories[i].diff.removed),
             changed |-> Len(categories[i].diff.changed)]]

\* render_added_section and render_removed_section: the count and, unless the
\* list is empty, the table of the items.
render_items_section(items) ==
    [count |-> Len(items),
     table |-> IF items = <<>> THEN None ELSE << render_item_table(items) >>]

\* A category's section: its heading and its three sub-sections (of the
\* changed items the count).
render_category(name, d) ==
    [heading |-> capitalize(escape_html(name)),
     added |-> render_items_section(d.added),
     removed |-> render_items_section(d.removed),
     changed |-> Len(d.changed)]

\* The body of render_diff_page below its header: the summary table and the
\* sections, for a report whose map yields its keys in the given order.
render_diff_body(report, order) ==
    LET categories == sort_by_key_lowercase(iter_collect(report, order))
    IN  [summary |-> render_summary_table(report, order),
         sections |-> [i \in 1..Len(categories) |->
                          render_category(categories[i].name, categories[i].diff)]]

\* The string a key of a JSON value holds, or the given default when the
\* value is no object, lacks the key or holds something else there.
get_str_or(item, key, default) ==
    IF is_object(item) /\ contains_key(item.v, key) /\ item.v[key].kind = "string"
    THEN item.v[key].v ELSE default

\* The array a key of a JSON value holds, or the empty list.
get_array_of(item, key) ==
    IF is_object(item) THEN get_array(item.v, key) ELSE <<>>

\* render_families_section listing only the entries that are objects.
render_families_section_ObjectsOnly(families) ==
    LET objects == SelectSeq(families, is_object)
    IN  [i \in 1..Len(objects) |->
            [code |-> get_code(objects[i]),
             label |-> IF get_label(objects[i]) = NoLabel THEN EM_DASH
                       ELSE get_label(objects[i]),
             attributes |-> Len(get_array_of(objects[i], "attributes")),
             label_attr |-> get_str_or(objects[i], "attribute_as_label", EM_DASH),
             image_attr |-> get_str_or(objects[i], "attribute_as_image", EM_DASH)]]

\* The rows of the families table of the root page, one per entry of the
\* array in array order.
render_families_section(families) ==
    [i \in 1..Len(families) |->
        [code |-> get_code(families[i]),
         label |-> IF get_label(families[i]) = NoLabel THEN EM_DASH
                   ELSE get_label(families[i]),
         attributes |-> Len(get_array_of(families[i], "attributes")),
         label_attr |-> get_str_or(families[i], "attribute_as_label", EM_DASH),
         image_attr |-> get_str_or(families[i], "attribute_as_image", EM_DASH)]]

\* required_map of render_family_detail_page: per channel of an object
\* "attribute_requirements" whose value is an array, the strings in it.
required_map(family) ==
    LET reqs == IF is_object(family) /\ contains_key(family.v, "attribute_requirements")
                   /\ is_object(family.v["attribute_requirements"])
                THEN family.v["attribute_requirements"].v ELSE EmptyMap
        channels == { ch \in DOMAIN reqs : is_array(reqs[ch]) }
    IN  [ch \in channels |->
            { reqs[ch].v[k].v : k \in { j \in 1..Len(reqs[ch].v) :
                                            reqs[ch].v[j].kind = "string" } }]

\* The rows of the family attributes table of a family's page, each with the
\* attribute code and the channels that require it, for a required_map that
\* yields its channels in the given order.
render_family_attributes(family, order) ==
    LET attrs == get_array_of(family, "attributes")
        required == required_map(family)
        attr_code(i) == IF attrs[i].kind = "string" THEN attrs[i].v ELSE "unknown"
        required_channels(i) == SelectSeq(order, LAMBDA ch : attr_code(i) \in required[ch])
    IN  [i \in 1..Len(attrs) |->
            [code |-> attr_code(i),
             required |-> IF required_channels(i) = <<>> THEN << EM_DASH >>
                          ELSE required_channels(i)]]

\* What one run of render_family_detail_page may write for a family.
family_attribute_runs(family) ==
    { render_family_attributes(family, order) :
        order \in Orders(DOMAIN required_map(family)) }

\* The page tree of a payload together with the families table of its root
\* body and the family attributes tables of its children's bodies.
render_snapshot_runs(data) ==
    LET families == get_array_of(data, "families")
        tables == UNION { family_attribute_runs(families[i]) : i \in 1..Len(families) }
    IN  { [tree |-> render_snapshot_pages(0, data),
           families_section |-> render_families_section(families),
           family_attributes |-> details] :
            details \in { d \in [1..Len(families) -> tables] :
                             \A i \in 1..Len(families) :
                                 d[i] \in family_attribute_runs(families[i]) } }

\* What one run of render_diff_page may return as the body for a report.
render_diff_runs(report) ==
    { render_diff_body(report, order) : order \in Orders(DOMAIN report) }

\* --------------------------------------- inputs of the renderer.rs functions
\* An argument of a renderer.rs function, tagged with what it is.
RenderArg(kind, v) == [kind |-> kind, v |-> v]

\* Added or removed items of differing shapes: a non-object, items with and
\* without "code", with an empty value, with labels, and with a field named
\* like the column of a label.
TableItems ==
    { JString("x"),
      JObject([code |-> JString("a")]),
      JObject([code |-> JString(""), type |-> JString("t")]),
      JObject([flag |-> JBool(TRUE)]),
      JObject([code |-> JString("b"), flag |-> JNumber(1)]),
      JObject([labels |-> JObject([en_US |-> JString("L")])]),
      JObject(Field("labels", JObject([en_US |-> JString("L")]))
              @@ Field("label (en_US)", JString("x"))) }

\* Category names: Zebra, apple, Mango, Apple and a&b.
CategoryNames ==
    { <<90, 101, 98, 114, 97>>, <<97, 112, 112, 108, 101>>, <<77, 97, 110, 103, 111>>,
      <<65, 112, 112, 108, 101>>, <<97, 38, 98>> }

\* The diff of a category: empty, or one item added.
RenderDiffs ==
    { CategoryDiff(EmptyMap),
      CategoryDiff([added |-> JArray(<< JObject([code |-> JString("a")]) >>)]) }

Reports ==
    UNION { [S -> RenderDiffs] :
              S \in { T \in SUBSET CategoryNames : Cardinality(T) <= MaxCategories } }

\* Families of a payload: named by code only, named by a label, an entry that
\* is no object, and a family whose attribute "sku" is required by two
\* channels.
RenderFams ==
    { JObject([code |-> JString("a")]),
      JObject([code |-> JString("b")]),
      JObject([code |-> JString("c"), labels |-> JObject([en_US |-> JString("a")])]),
      JString("x"),
      JObject([code |-> JString("a"),
               attributes |-> JArray(<< JString("sku"), JString("name") >>),
               attribute_requirements |->
                   JObject([ecommerce |-> JArray(<< JString("sku") >>),
                            mobile |-> JArray(<< JString("sku"), JString("name") >>),
                            print |-> JString("sku")])]) }

RenderPayloads ==
    { JNull, JObject(EmptyMap), JObject([families |-> JString("x")]) }
    \cup { JObject([families |-> JArray(f)]) :
              f \in UNION { [1..n -> RenderFams] : n \in 0..MaxFamilies } }

ItemLists == UNION { [1..n -> TableItems] : n \in 0..MaxItems }

\* ---------------------------------------------------------------- state
VARIABLES
    pages,   \* the remote store: page id i is pages[i]
    nreq,    \* requests received so far
    hpc,     \* per task: position in handle_snapshot
    req,     \* per task: the request's page tree, config and request id
    idx,     \* per task: index of the child being published
    rootRes, \* per task: page id returned by the root publish (0 = none yet)
    call,    \* per task: the publish call in flight (or the last one)
    resp,    \* per task: the HTTP response of the request
    pubs,    \* history: the writes of the requests being served, in order
    last,    \* history, per title: the result of the last call that wrote a
             \* page of that title, if that call returned Ok
    diff,    \* per task: the locals of handle_diff (the diff row, the report)
    arg,     \* the value a function of diff.rs is applied to
    ret      \* the function applied to arg and what it returned (None = not yet)

vars == <<pages, nreq, hpc, req, idx, rootRes, call, resp, pubs, last, diff, arg, ret>>

\* ------------------------------------------------------------ the store
\* Search results for a title: the matching pages in id order, each with its
\* id and version metadata.
SearchResults(store, title) ==
    LET ids == { i \in 1..Len(store) : store[i].title = title }
        F[S \in SUBSET (1..Len(store))] ==
            IF S = {} THEN <<>>
            ELSE LET m == CHOOSE x \in S : \A y \in S : x <= y
                 IN  <<[id |-> m, version |-> store[m].version]>> \o F[S \ {m}]
    IN  F[ids]

\* The answers the store may give to a search for a title.
SearchResponses(store, title) ==
    LET res == SearchResults(store, title)
    IN  { [status |-> STATUS_OK, json |-> TRUE, results |-> res],
          [status |-> STATUS_OK, json |-> FALSE, results |-> <<>>],
          [status |-> STATUS_ERROR, json |-> FALSE, results |-> <<>>] }
        \cup (IF res = <<>>
              THEN {[status |-> NOT_FOUND, json |-> FALSE, results |-> <<>>]}
              ELSE {})

\* The answers the store may give to a write request.
WriteResponses ==
    { [status |-> STATUS_OK, json |-> TRUE],
      [status |-> STATUS_OK, json |-> FALSE],
      [status |-> NOT_FOUND, json |-> FALSE],
      [status |-> STATUS_ERROR, json |-> FALSE] }

is_success(status) == status \in 200..299

\* POST content: a new page, version 1, under the given ancestor (0 = none).
StoreCreate(store, r) ==
    Append(store, [title |-> r.title, body |-> r.body, version |-> 1,
                   parent |-> r.ancestor])

\* PUT content/{id}: title, body and version number replaced; parent kept.
StoreUpdate(store, r) ==
    [store EXCEPT ![r.id] = [title |-> r.title, body |-> r.body,
                             version |-> r.number, parent |-> @.parent]]

\* ------------------------------------------------- ConfluenceClient
\* A publish call: publish_page(title, body) when under = 0, and
\* publish_page_under_id(title, body, under) otherwise.  log is the list of
\* requests the call has issued, each with the status it was answered with and
\* whether the answer's body decoded; wreq is the write request it sent.
NewCall(title, body, under) ==
    [pc |-> "search", title |-> title, body |-> body, under |-> under,
     found |-> None, parent_id |-> 0, log |-> <<>>, wreq |-> None,
     result |-> 0, err |-> None]

NoCall ==
    [pc |-> "none", title |-> None, body |-> None, under |-> 0,
     found |-> None, parent_id |-> 0, log |-> <<>>, wreq |-> None,
     result |-> 0, err |-> None]

Failure(kind, detail) == [kind |-> kind, detail |-> detail]

\* find_page taking every non-success status for "no such page".
find_page_LenientStatus(r) ==
    IF ~is_success(r.status)
    THEN [ok |-> TRUE, found |-> None, err |-> None]
    ELSE IF ~r.json
    THEN [ok |-> FALSE, found |-> None, err |-> Failure("parse search response", r.status)]
    ELSE IF r.results # <<>>
    THEN LET page == Head(r.results)
             version == IF page.version = NoVersion THEN 1 ELSE page.version
         IN  [ok |-> TRUE, found |-> <<page.id, version>>, err |-> None]
    ELSE [ok |-> TRUE, found |-> None, err |-> None]

\* find_page reporting "no such page" whatever the search returned.
find_page_NeverFound(r) ==
    IF r.status = NOT_FOUND
    THEN [ok |-> TRUE, found |-> None, err |-> None]
    ELSE IF ~is_success(r.status)
    THEN [ok |-> FALSE, found |-> None, err |-> Failure("search failed", r.status)]
    ELSE IF ~r.json
    THEN [ok |-> FALSE, found |-> None, err |-> Failure("parse search response", r.status)]
    ELSE [ok |-> TRUE, found |-> None, err |-> None]

\* find_page taking the last result of the search instead of the first.
find_page_LastResult(r) ==
    IF r.status = NOT_FOUND
    THEN [ok |-> TRUE, found |-> None, err |-> None]
    ELSE IF ~is_success(r.status)
    THEN [ok |-> FALSE, found |-> None, err |-> Failure("search failed", r.status)]
    ELSE IF ~r.json
    THEN [ok |-> FALSE, found |-> None, err |-> Failure("parse search response", r.status)]
    ELSE IF r.results # <<>>
    THEN LET page == r.results[Len(r.results)]
             version == IF page.version = NoVersion THEN 1 ELSE page.version
         IN  [ok |-> TRUE, found |-> <<page.id, version>>, err |-> None]
    ELSE [ok |-> TRUE, found |-> None, err |-> None]

\* find_page on the store's answer: Ok(None) on 404, an error on any other
\* non-success status or an undecodable body, else the first result with its
\* version (1 when the result carries no version metadata).
find_page(r) ==
    IF r.status = NOT_FOUND
    THEN [ok |-> TRUE, found |-> None, err |-> None]
    ELSE IF ~is_success(r.status)
    THEN [ok |-> FALSE, found |-> None, err |-> Failure("search failed", r.status)]
    ELSE IF ~r.json
    THEN [ok |-> FALSE, found |-> None, err |-> Failure("parse search response", r.status)]
    ELSE IF r.results # <<>>
    THEN LET page == Head(r.results)
             version == IF page.version = NoVersion THEN 1 ELSE page.version
         IN  [ok |-> TRUE, found |-> <<page.id, version>>, err |-> None]
    ELSE [ok |-> TRUE, found |-> None, err |-> None]

\* The JSON body create_page posts; ancestors is set only for a parent.
create_request(c, parent_id) ==
    [op |-> "create", title |-> c.title, body |-> c.body, ancestor |-> parent_id]

\* update_page sending a version number one too high.
update_request_SkipVersion(c) ==
    [op |-> "update", id |-> c.found[1], title |-> c.title, body |-> c.body,
     number |-> c.found[2] + 2]

\* update_page sending the current version number unchanged.
update_request_SameVersion(c) ==
    [op |-> "update", id |-> c.found[1], title |-> c.title, body |-> c.body,
     number |-> c.found[2]]

\* The JSON body update_page puts, addressed to the found page.
update_request(c) ==
    [op |-> "update", id |-> c.found[1], title |-> c.title, body |-> c.body,
     number |-> c.found[2] + 1]

\* publish_page resolving the configured parent before it looks at the search
\* result.
publish_page_ResolveFirst(c, parent_page, found) ==
    IF parent_page # NoParent
    THEN [c EXCEPT !.found = found, !.pc = "parent"]
    ELSE IF found # None
    THEN [c EXCEPT !.found = found, !.pc = "update"]
    ELSE [c EXCEPT !.pc = "create"]

\* publish_page after the title search: update when found; otherwise
\* create_page, which first resolves a non-empty configured parent title.
publish_page(c, parent_page, found) ==
    IF found # None
    THEN [c EXCEPT !.found = found, !.pc = "update"]
    ELSE IF parent_page # NoParent
    THEN [c EXCEPT !.pc = "parent"]
    ELSE [c EXCEPT !.pc = "create"]

\* publish_page_under_id after the title search: update when found; otherwise
\* create under the given page identifier, which needs no resolving.
publish_page_under_id(c, found) ==
    IF found # None
    THEN [c EXCEPT !.found = found, !.pc = "update"]
    ELSE [c EXCEPT !.pc = "create", !.parent_id = c.under]

Logged(c, op, r) ==
    [c EXCEPT !.log = Append(@, [op |-> op, status |-> r.status, json |-> r.json])]

Failed(c, err) == [c EXCEPT !.pc = "failed", !.err = err]

\* The title search issued again after a failed answer.
FindPage_Retry(p) ==
    /\ call[p].pc = "search"
    /\ \E r \in SearchResponses(pages, call[p].title) :
         LET c == Logged(call[p], "search", r)
             f == find_page(r)
         IN  call' = [call EXCEPT ![p] =
                 IF ~f.ok THEN (IF Len(c.log) < 2 THEN c ELSE Failed(c, f.err))
                 ELSE IF c.under = 0
                 THEN publish_page(c, req[p].parent_page, f.found)
                 ELSE publish_page_under_id(c, f.found)]
    /\ UNCHANGED <<diff, arg, ret, pages, nreq, hpc, req, idx, rootRes, resp, pubs, last>>

\* Step 1 of a publish call: the title search.
FindPage(p) ==
    /\ call[p].pc = "search"
    /\ \E r \in SearchResponses(pages, call[p].title) :
         LET c == Logged(call[p], "search", r)
             f == find_page(r)
         IN  call' = [call EXCEPT ![p] =
                 IF ~f.ok THEN Failed(c, f.err)
                 ELSE IF c.under = 0
                 THEN publish_page(c, req[p].parent_page, f.found)
                 ELSE publish_page_under_id(c, f.found)]
    /\ UNCHANGED <<diff, arg, ret, pages, nreq, hpc, req, idx, rootRes, resp, pubs, last>>

\* create_page creating the page without an ancestor when the parent title is
\* not found.
ResolveParent_Orphan(p) ==
    /\ call[p].pc = "parent"
    /\ \E r \in SearchResponses(pages, req[p].parent_page) :
         LET c == Logged(call[p], "parent search", r)
             f == find_page(r)
         IN  call' = [call EXCEPT ![p] =
                 IF ~f.ok THEN Failed(c, f.err)
                 ELSE IF f.found = None
                 THEN [c EXCEPT !.pc = "create"]
                 ELSE [c EXCEPT !.parent_id = f.found[1], !.pc = "create"]]
    /\ UNCHANGED <<diff, arg, ret, pages, nreq, hpc, req, idx, rootRes, resp, pubs, last>>

\* create_page, first half: the parent title is searched; no result is an error
\* naming the parent page.
ResolveParent(p) ==
    /\ call[p].pc = "parent"
    /\ \E r \in SearchResponses(pages, req[p].parent_page) :
         LET c == Logged(call[p], "parent search", r)
             f == find_page(r)
         IN  call' = [call EXCEPT ![p] =
                 IF ~f.ok THEN Failed(c, f.err)
                 ELSE IF f.found = None
                 THEN Failed(c, Failure("parent page not found", req[p].parent_page))
                 ELSE [c EXCEPT !.parent_id = f.found[1], !.pc = "create"]]
    /\ UNCHANGED <<diff, arg, ret, pages, nreq, hpc, req, idx, rootRes, resp, pubs, last>>

\* History entry of a call whose write reached the store: the request and
\* part of the page tree it published (0 = root), the page written, its version
\* afterwards, and whether the call returned Ok.
Published(p, w, id, version, ok) ==
    [rid |-> req[p].rid, part |-> idx[p], op |-> w.op, title |-> w.title,
     body |-> w.body, id |-> id, version |-> version, ok |-> ok]

\* What a call that wrote page id leaves as the title's last result.
LastResult(id, version, ok) ==
    IF ok THEN [id |-> id, version |-> version] ELSE None

\* create_page as a conditional write: a page that already has the title is
\* returned instead of a second one being created.
CreatePage_IfAbsent(p) ==
    /\ call[p].pc = "create"
    /\ \E r \in WriteResponses :
         LET w == create_request(call[p], call[p].parent_id)
             c == [Logged(call[p], "create", r) EXCEPT !.wreq = w]
             same == { k \in 1..Len(pages) : pages[k].title = w.title }
             id == IF same = {} THEN Len(pages) + 1 ELSE CHOOSE k \in same : TRUE
         IN  IF ~is_success(r.status)
             THEN /\ call' = [call EXCEPT ![p] = Failed(c, Failure("create failed", r.status))]
                  /\ UNCHANGED <<pages, pubs, last>>
             ELSE /\ pages' = IF same = {} THEN StoreCreate(pages, w) ELSE pages
                  /\ pubs' = Append(pubs, Published(p, w, id, 1, r.json))
                  /\ last' = [last EXCEPT ![w.title] = LastResult(id, 1, r.json)]
                  /\ call' = [call EXCEPT ![p] =
                        IF ~r.json THEN Failed(c, Failure("parse create response", r.status))
                        ELSE [c EXCEPT !.pc = "ok", !.result = id]]
    /\ UNCHANGED <<diff, arg, ret, nreq, hpc, req, idx, rootRes, resp>>

\* create_page, second half: the POST and its answer.
CreatePage(p) ==
    /\ call[p].pc = "create"
    /\ \E r \in WriteResponses :
         LET w == create_request(call[p], call[p].parent_id)
             c == [Logged(call[p], "create", r) EXCEPT !.wreq = w]
             id == Len(pages) + 1
         IN  IF ~is_success(r.status)
             THEN /\ call' = [call EXCEPT ![p] = Failed(c, Failure("create failed", r.status))]
                  /\ UNCHANGED <<pages, pubs, last>>
             ELSE /\ pages' = StoreCreate(pages, w)
                  /\ pubs' = Append(pubs, Published(p, w, id, 1, r.json))
                  /\ last' = [last EXCEPT ![w.title] = LastResult(id, 1, r.json)]
                  /\ call' = [call EXCEPT ![p] =
                        IF ~r.json THEN Failed(c, Failure("parse create response", r.status))
                        ELSE [c EXCEPT !.pc = "ok", !.result = id]]
    /\ UNCHANGED <<diff, arg, ret, nreq, hpc, req, idx, rootRes, resp>>

\* update_page falling through to a create after a successful update.
UpdatePage_FallThrough(p) ==
    /\ call[p].pc = "update"
    /\ \E r \in WriteResponses :
         LET w == update_request(call[p])
             c == [Logged(call[p], "update", r) EXCEPT !.wreq = w]
         IN  IF ~is_success(r.status)
             THEN /\ call' = [call EXCEPT ![p] = Failed(c, Failure("update failed", r.status))]
                  /\ UNCHANGED <<pages, pubs, last>>
             ELSE /\ pages' = StoreUpdate(pages, w)
                  /\ pubs' = Append(pubs, Published(p, w, w.id, w.number, r.json))
                  /\ last' = [last EXCEPT ![w.title] = LastResult(w.id, w.number, r.json)]
                  /\ call' = [call EXCEPT ![p] =
                        IF ~r.json THEN Failed(c, Failure("parse update response", r.status))
                        ELSE [c EXCEPT !.pc = "create", !.result = w.id]]
    /\ UNCHANGED <<diff, arg, ret, nreq, hpc, req, idx, rootRes, resp>>

\* update_page: the PUT and its answer.
UpdatePage(p) ==
    /\ call[p].pc = "update"
    /\ \E r \in WriteResponses :
         LET w == update_request(call[p])
             c == [Logged(call[p], "update", r) EXCEPT !.wreq = w]
         IN  IF ~is_success(r.status)
             THEN /\ call' = [call EXCEPT ![p] = Failed(c, Failure("update failed", r.status))]
                  /\ UNCHANGED <<pages, pubs, last>>
             ELSE /\ pages' = StoreUpdate(pages, w)
                  /\ pubs' = Append(pubs, Published(p, w, w.id, w.number, r.json))
                  /\ last' = [last EXCEPT ![w.title] = LastResult(w.id, w.number, r.json)]
                  /\ call' = [call EXCEPT ![p] =
                        IF ~r.json THEN Failed(c, Failure("parse update response", r.status))
                        ELSE [c EXCEPT !.pc = "ok", !.result = w.id]]
    /\ UNCHANGED <<diff, arg, ret, nreq, hpc, req, idx, rootRes, resp>>

\* ---------------------------------------------------- handle_snapshot
ErrorResponse(code, what, detail) ==
    [code |-> code, status |-> "error", what |-> what, detail |-> detail]

SuccessResponse(page) ==
    [code |-> STATUS_OK, status |-> "ok", what |-> "page_url", detail |-> page]

NoRequest == [rid |-> 0, tree |-> render_snapshot_pages(0, NonObject), parent_page |-> NoParent]

\* Steps 1-2: the snapshot row is fetched (or not found) and rendered.
FetchSnapshot(p) ==
    /\ hpc[p] = "idle"
    /\ nreq < MaxRequests
    /\ nreq' = nreq + 1
    /\ \/ /\ hpc' = [hpc EXCEPT ![p] = "responded"]
          /\ req' = [req EXCEPT ![p] = [NoRequest EXCEPT !.rid = nreq + 1]]
          /\ resp' = [resp EXCEPT ![p] =
                        ErrorResponse(NOT_FOUND, "Snapshot not found", nreq + 1)]
       \/ \E data \in Payloads :
          /\ hpc' = [hpc EXCEPT ![p] = "config"]
          /\ req' = [req EXCEPT ![p] =
                        [rid |-> nreq + 1,
                         tree |-> render_snapshot_pages(nreq + 1, data),
                         parent_page |-> NoParent]]
          /\ resp' = [resp EXCEPT ![p] = None]
    /\ UNCHANGED <<diff, arg, ret, pages, idx, rootRes, call, pubs, last>>

\* Step 3-4: the Confluence configuration is fetched and the root publish begins.
FetchConfig(p) ==
    /\ hpc[p] = "config"
    /\ \/ /\ hpc' = [hpc EXCEPT ![p] = "responded"]
          /\ resp' = [resp EXCEPT ![p] =
                        ErrorResponse(INTERNAL_SERVER_ERROR,
                                      "Failed to fetch Confluence configuration", 0)]
          /\ UNCHANGED <<req, call>>
       \/ \E pp \in ParentPages :
          /\ hpc' = [hpc EXCEPT ![p] = "root"]
          /\ req' = [req EXCEPT ![p].parent_page = pp]
          /\ call' = [call EXCEPT ![p] =
                        NewCall(req[p].tree.root_title, req[p].tree.root_body, 0)]
          /\ resp' = resp
    /\ UNCHANGED <<diff, arg, ret, pages, nreq, idx, rootRes, pubs, last>>

\* The children loop handing the children the configured parent instead of the
\* root publish's id.
ChildrenLoop_NoRootId(p, i, root_id) ==
    IF i <= Len(req[p].tree.children)
    THEN /\ hpc' = [hpc EXCEPT ![p] = "children"]
         /\ idx' = [idx EXCEPT ![p] = i]
         /\ call' = [call EXCEPT ![p] =
                NewCall(req[p].tree.children[i].title, req[p].tree.children[i].body, 0)]
         /\ resp' = resp
    ELSE /\ hpc' = [hpc EXCEPT ![p] = "responded"]
         /\ resp' = [resp EXCEPT ![p] = SuccessResponse(root_id)]
         /\ UNCHANGED <<idx, call>>

\* What the children loop does at position i once the root id is known: the
\* next child's publish begins, or the loop is over and the request succeeds.
ChildrenLoop(p, i, root_id) ==
    IF i <= Len(req[p].tree.children)
    THEN /\ hpc' = [hpc EXCEPT ![p] = "children"]
         /\ idx' = [idx EXCEPT ![p] = i]
         /\ call' = [call EXCEPT ![p] =
                NewCall(req[p].tree.children[i].title, req[p].tree.children[i].body,
                        root_id)]
         /\ resp' = resp
    ELSE /\ hpc' = [hpc EXCEPT ![p] = "responded"]
         /\ resp' = [resp EXCEPT ![p] = SuccessResponse(root_id)]
         /\ UNCHANGED <<idx, call>>

\* The root publish's result answered with success at once, the children left
\* unpublished.
RootPublished_RespondEarly(p) ==
    /\ hpc[p] = "root"
    /\ call[p].pc \in {"ok", "failed"}
    /\ IF call[p].pc = "failed"
       THEN /\ hpc' = [hpc EXCEPT ![p] = "responded"]
            /\ resp' = [resp EXCEPT ![p] =
                   ErrorResponse(INTERNAL_SERVER_ERROR, "Failed to publish root page",
                                 call[p].title)]
            /\ UNCHANGED <<idx, rootRes, call>>
       ELSE /\ rootRes' = [rootRes EXCEPT ![p] = call[p].result]
            /\ hpc' = [hpc EXCEPT ![p] = "responded"]
            /\ resp' = [resp EXCEPT ![p] = SuccessResponse(call[p].result)]
            /\ UNCHANGED <<idx, call>>
    /\ UNCHANGED <<diff, arg, ret, pages, nreq, req, pubs, last>>

\* Step 4, the match on the root publish's result.
RootPublished(p) ==
    /\ hpc[p] = "root"
    /\ call[p].pc \in {"ok", "failed"}
    /\ IF call[p].pc = "failed"
       THEN /\ hpc' = [hpc EXCEPT ![p] = "responded"]
            /\ resp' = [resp EXCEPT ![p] =
                   ErrorResponse(INTERNAL_SERVER_ERROR, "Failed to publish root page",
                                 call[p].title)]
            /\ UNCHANGED <<idx, rootRes, call>>
       ELSE /\ rootRes' = [rootRes EXCEPT ![p] = call[p].result]
            /\ ChildrenLoop(p, 1, call[p].result)
    /\ UNCHANGED <<diff, arg, ret, pages, nreq, req, pubs, last>>

\* The children loop going on with the next child after a failed one.
ChildPublished_SkipFailed(p) ==
    /\ hpc[p] = "children"
    /\ call[p].pc \in {"ok", "failed"}
    /\ ChildrenLoop(p, idx[p] + 1, rootRes[p])
    /\ UNCHANGED <<diff, arg, ret, pages, nreq, req, rootRes, pubs, last>>

\* The children loop answering a child's failure as a success.
ChildPublished_Swallow(p) ==
    /\ hpc[p] = "children"
    /\ call[p].pc \in {"ok", "failed"}
    /\ IF call[p].pc = "failed"
       THEN /\ hpc' = [hpc EXCEPT ![p] = "responded"]
            /\ resp' = [resp EXCEPT ![p] = SuccessResponse(rootRes[p])]
            /\ UNCHANGED <<idx, call>>
       ELSE ChildrenLoop(p, idx[p] + 1, rootRes[p])
    /\ UNCHANGED <<diff, arg, ret, pages, nreq, req, rootRes, pubs, last>>

\* Step 5, the match on a child publish's result: an error ends the request.
ChildPublished(p) ==
    /\ hpc[p] = "children"
    /\ call[p].pc \in {"ok", "failed"}
    /\ IF call[p].pc = "failed"
       THEN /\ hpc' = [hpc EXCEPT ![p] = "responded"]
            /\ resp' = [resp EXCEPT ![p] =
                   ErrorResponse(INTERNAL_SERVER_ERROR, "Failed to publish child page",
                                 call[p].title)]
            /\ UNCHANGED <<idx, call>>
       ELSE ChildrenLoop(p, idx[p] + 1, rootRes[p])
    /\ UNCHANGED <<diff, arg, ret, pages, nreq, req, rootRes, pubs, last>>

\* ------------------------------------------------------------ handle_diff
\* The diff rows the database can hold: a root that is no object, a category
\* that is no object, and a well-formed diff.
DiffRows ==
    { JArray(<<>>),
      JObject("families" :> JString("x")),
      JObject("families" :>
                 JObject("added" :> JArray(<< JObject("code" :> JString("a")) >>))) }

NoDiff ==
    [data |-> JNull, before |-> NoLabel, after |-> NoLabel, report |-> None,
     page |-> None]

\* Step 1: the diff row and its two snapshots are fetched (or not found).
FetchDiff(p) ==
    /\ hpc[p] = "idle"
    /\ nreq < MaxRequests
    /\ nreq' = nreq + 1
    /\ req' = [req EXCEPT ![p] = [NoRequest EXCEPT !.rid = nreq + 1]]
    /\ \/ /\ hpc' = [hpc EXCEPT ![p] = "responded"]
          /\ resp' = [resp EXCEPT ![p] =
                        ErrorResponse(NOT_FOUND, "Diff not found", nreq + 1)]
          /\ diff' = diff
       \/ \E data \in DiffRows, b, a \in SnapshotLabels :
          /\ hpc' = [hpc EXCEPT ![p] = "parse"]
          /\ diff' = [diff EXCEPT ![p] =
                         [NoDiff EXCEPT !.data = data, !.before = b, !.after = a]]
          /\ resp' = [resp EXCEPT ![p] = None]
    /\ UNCHANGED <<pages, idx, rootRes, call, pubs, last, arg, ret>>

\* Steps 2-3 with the parse error ignored: the page is rendered from an empty
\* report and the request goes on.
ParseDiff_IgnoreError(p) ==
    /\ hpc[p] = "parse"
    /\ LET parsed == parse_diff_data(diff[p].data)
           report == IF parsed.ok THEN parsed.report ELSE EmptyMap
       IN  /\ hpc' = [hpc EXCEPT ![p] = "diffconfig"]
           /\ diff' = [diff EXCEPT ![p].report = report,
                                   ![p].page = render_diff_page(req[p].rid, diff[p].before,
                                                                diff[p].after, report)]
           /\ resp' = resp
    /\ UNCHANGED <<pages, nreq, req, idx, rootRes, call, pubs, last, arg, ret>>

\* Steps 2-3: the diff data is parsed and, when that succeeds, the page rendered.
ParseDiff(p) ==
    /\ hpc[p] = "parse"
    /\ LET parsed == parse_diff_data(diff[p].data)
       IN  IF ~parsed.ok
           THEN /\ hpc' = [hpc EXCEPT ![p] = "responded"]
                /\ resp' = [resp EXCEPT ![p] =
                       ErrorResponse(INTERNAL_SERVER_ERROR, "Failed to parse diff data",
                                     parsed.what)]
                /\ diff' = diff
           ELSE /\ hpc' = [hpc EXCEPT ![p] = "diffconfig"]
                /\ diff' = [diff EXCEPT ![p].report = parsed.report,
                                        ![p].page = render_diff_page(req[p].rid,
                                                        diff[p].before, diff[p].after,
                                                        parsed.report)]
                /\ resp' = resp
    /\ UNCHANGED <<pages, nreq, req, idx, rootRes, call, pubs, last, arg, ret>>

\* Steps 4-5: the Confluence configuration is fetched and the publish begins.
FetchDiffConfig(p) ==
    /\ hpc[p] = "diffconfig"
    /\ \/ /\ hpc' = [hpc EXCEPT ![p] = "responded"]
          /\ resp' = [resp EXCEPT ![p] =
                        ErrorResponse(INTERNAL_SERVER_ERROR,
                                      "Failed to fetch Confluence configuration", 0)]
          /\ UNCHANGED <<req, call>>
       \/ \E pp \in ParentPages :
          /\ hpc' = [hpc EXCEPT ![p] = "diff"]
          /\ req' = [req EXCEPT ![p].parent_page = pp]
          /\ call' = [call EXCEPT ![p] =
                        NewCall(diff[p].page.title, diff[p].page.body, 0)]
          /\ resp' = resp
    /\ UNCHANGED <<pages, nreq, idx, rootRes, pubs, last, diff, arg, ret>>

\* Steps 5-6, the match on the publish's result.
DiffPublished(p) ==
    /\ hpc[p] = "diff"
    /\ call[p].pc \in {"ok", "failed"}
    /\ hpc' = [hpc EXCEPT ![p] = "responded"]
    /\ resp' = [resp EXCEPT ![p] =
           IF call[p].pc = "failed"
           THEN ErrorResponse(INTERNAL_SERVER_ERROR,
                              "Failed to publish diff page to Confluence", call[p].err.kind)
           ELSE SuccessResponse(call[p].result)]
    /\ UNCHANGED <<pages, nreq, req, idx, rootRes, call, pubs, last, diff, arg, ret>>

\* The response is sent and the task's locals (and the history of the
\* request) are dropped.
Respond(p) ==
    /\ hpc[p] = "responded"
    /\ hpc' = [hpc EXCEPT ![p] = "idle"]
    /\ req' = [req EXCEPT ![p] = NoRequest]
    /\ idx' = [idx EXCEPT ![p] = 0]
    /\ rootRes' = [rootRes EXCEPT ![p] = 0]
    /\ call' = [call EXCEPT ![p] = NoCall]
    /\ resp' = [resp EXCEPT ![p] = None]
    /\ pubs' = SelectSeq(pubs, LAMBDA e : e.rid # req[p].rid)
    /\ diff' = [diff EXCEPT ![p] = NoDiff]
    /\ UNCHANGED <<arg, ret, pages, nreq, last>>

\* ------------------------------------------------------ specifications
\* The store before the first request: empty, or holding the parent page, or
\* also an earlier "Current model" page listed without version metadata.
StoredParent == [title |-> ParentTitle, body |-> None, version |-> 1, parent |-> 0]
StoredRoot == [title |-> RootTitle, body |-> None, version |-> NoVersion, parent |-> 0]
InitStores == { <<>>, <<StoredParent>>, <<StoredParent, StoredRoot>> }

Init ==
    /\ pages \in InitStores
    /\ nreq = 0
    /\ hpc = [p \in Procs |-> "idle"]
    /\ req = [p \in Procs |-> NoRequest]
    /\ idx = [p \in Procs |-> 0]
    /\ rootRes = [p \in Procs |-> 0]
    /\ call = [p \in Procs |-> NoCall]
    /\ resp = [p \in Procs |-> None]
    /\ pubs = <<>>
    /\ last = [t \in Titles |-> None]
    /\ diff = [p \in Procs |-> NoDiff]
    /\ arg = None
    /\ ret = None

\* Requests served one after another; which task serves them is immaterial,
\* so Worker does.
Worker == CHOOSE p \in Procs : TRUE

Next ==
    \/ FetchSnapshot(Worker)
    \/ FetchConfig(Worker)
    \/ FindPage(Worker)
    \/ ResolveParent(Worker)
    \/ CreatePage(Worker)
    \/ UpdatePage(Worker)
    \/ RootPublished(Worker)
    \/ ChildPublished(Worker)
    \/ Respond(Worker)

Spec == Init /\ [][Next]_vars

\* Requests served one after another on a store that may already hold two
\* pages titled "Current model", as overlapping requests leave it: the first
\* listed without version metadata, the second at version 3.
StoredTwice == << StoredRoot, [StoredRoot EXCEPT !.version = 3] >>

InitDuplicates ==
    /\ pages \in InitStores \cup {StoredTwice}
    /\ nreq = 0
    /\ hpc = [p \in Procs |-> "idle"]
    /\ req = [p \in Procs |-> NoRequest]
    /\ idx = [p \in Procs |-> 0]
    /\ rootRes = [p \in Procs |-> 0]
    /\ call = [p \in Procs |-> NoCall]
    /\ resp = [p \in Procs |-> None]
    /\ pubs = <<>>
    /\ last = [t \in Titles |-> None]
    /\ diff = [p \in Procs |-> NoDiff]
    /\ arg = None
    /\ ret = None

SpecDuplicates == InitDuplicates /\ [][Next]_vars

\* Requests served by tasks that overlap: one request per task, with payloads
\* of at most MaxRaceFamilies families.
RaceScope ==
    /\ nreq <= Cardinality(Procs)
    /\ \A p \in Procs : Len(req[p].tree.children) <= MaxRaceFamilies

NextRace ==
    \/ \E p \in Procs : FetchSnapshot(p) /\ RaceScope'
    \/ \E p \in Procs : FetchConfig(p)
    \/ \E p \in Procs : FindPage(p)
    \/ \E p \in Procs : ResolveParent(p)
    \/ \E p \in Procs : CreatePage(p)
    \/ \E p \in Procs : UpdatePage(p)
    \/ \E p \in Procs : RootPublished(p)
    \/ \E p \in Procs : ChildPublished(p)
    \/ \E p \in Procs : Respond(p)

SpecRace == Init /\ [][NextRace]_vars

\* Both routes of the service, requests served one after another, with
\* snapshot payloads of at most MaxRaceFamilies families.
ServiceScope == \A p \in Procs : Len(req[p].tree.children) <= MaxRaceFamilies

NextService ==
    \/ FetchSnapshot(Worker) /\ ServiceScope'
    \/ FetchConfig(Worker)
    \/ FindPage(Worker)
    \/ ResolveParent(Worker)
    \/ CreatePage(Worker)
    \/ UpdatePage(Worker)
    \/ RootPublished(Worker)
    \/ ChildPublished(Worker)
    \/ Respond(Worker)
    \/ FetchDiff(Worker)
    \/ ParseDiff(Worker)
    \/ FetchDiffConfig(Worker)
    \/ DiffPublished(Worker)

SpecService == Init /\ [][NextService]_vars

\* The functions of diff.rs, each applied once to a value drawn from Inputs;
\* the service is left idle.
InitParse ==
    /\ pages = <<>>
    /\ nreq = 0
    /\ hpc = [p \in Procs |-> "idle"]
    /\ req = [p \in Procs |-> NoRequest]
    /\ idx = [p \in Procs |-> 0]
    /\ rootRes = [p \in Procs |-> 0]
    /\ call = [p \in Procs |-> NoCall]
    /\ resp = [p \in Procs |-> None]
    /\ pubs = <<>>
    /\ last = [t \in Titles |-> None]
    /\ diff = [p \in Procs |-> NoDiff]
    /\ arg \in Inputs
    /\ ret = None

Returned(fn, val) == [fn |-> fn, val |-> val]

ParseChangedItem ==
    /\ ret = None
    /\ ret' = Returned("parse_changed_item", parse_changed_item(arg))
    /\ UNCHANGED <<pages, nreq, hpc, req, idx, rootRes, call, resp, pubs, last, diff, arg>>

ParseDiffData ==
    /\ ret = None
    /\ ret' = Returned("parse_diff_data", parse_diff_data(arg))
    /\ UNCHANGED <<pages, nreq, hpc, req, idx, rootRes, call, resp, pubs, last, diff, arg>>

ExtractItemProperties ==
    /\ ret = None
    /\ ret' = Returned("extract_item_properties", extract_item_properties(arg))
    /\ UNCHANGED <<pages, nreq, hpc, req, idx, rootRes, call, resp, pubs, last, diff, arg>>

NextParse ==
    \/ ParseChangedItem
    \/ ParseDiffData
    \/ ExtractItemProperties

SpecParse == InitParse /\ [][NextParse]_vars

\* The functions of renderer.rs, each applied to a value drawn from
\* RenderInputs and then once more to the same value; the service is left
\* idle.
RenderInputs ==
    { RenderArg("items", items) : items \in ItemLists }
    \cup { RenderArg("report", report) : report \in Reports }
    \cup { RenderArg("payload", data) : data \in RenderPayloads }

InitRender ==
    /\ pages = <<>>
    /\ nreq = 0
    /\ hpc = [p \in Procs |-> "idle"]
    /\ req = [p \in Procs |-> NoRequest]
    /\ idx = [p \in Procs |-> 0]
    /\ rootRes = [p \in Procs |-> 0]
    /\ call = [p \in Procs |-> NoCall]
    /\ resp = [p \in Procs |-> None]
    /\ pubs = <<>>
    /\ last = [t \in Titles |-> None]
    /\ diff = [p \in Procs |-> NoDiff]
    /\ arg \in RenderInputs
    /\ ret = None

\* What a first run returned; again is what the latest run returned.
Rendered(fn, val) == [fn |-> fn, val |-> val, runs |-> 1, again |-> val]

RenderItemTable ==
    /\ ret = None
    /\ arg.kind = "items"
    /\ ret' = Rendered("render_item_table", render_item_table(arg.v))
    /\ UNCHANGED <<pages, nreq, hpc, req, idx, rootRes, call, resp, pubs, last, diff, arg>>

RenderDiffPage ==
    /\ ret = None
    /\ arg.kind = "report"
    /\ \E val \in render_diff_runs(arg.v) : ret' = Rendered("render_diff_page", val)
    /\ UNCHANGED <<pages, nreq, hpc, req, idx, rootRes, call, resp, pubs, last, diff, arg>>

RenderSnapshotPages ==
    /\ ret = None
    /\ arg.kind = "payload"
    /\ \E val \in render_snapshot_runs(arg.v) : ret' = Rendered("render_snapshot_pages", val)
    /\ UNCHANGED <<pages, nreq, hpc, req, idx, rootRes, call, resp, pubs, last, diff, arg>>

\* The function applied a second time to the same argument.
RenderAgain ==
    /\ ret # None
    /\ ret.runs = 1
    /\ \E val \in (CASE ret.fn = "render_item_table" -> { render_item_table(arg.v) }
                    [] ret.fn = "render_diff_page" -> render_diff_runs(arg.v)
                    [] ret.fn = "render_snapshot_pages" -> render_snapshot_runs(arg.v)) :
          ret' = [ret EXCEPT !.runs = 2, !.again = val]
    /\ UNCHANGED <<pages, nreq, hpc, req, idx, rootRes, call, resp, pubs, last, diff, arg>>

NextRender ==
    \/ RenderItemTable
    \/ RenderDiffPage
    \/ RenderSnapshotPages
    \/ RenderAgain

SpecRender == InitRender /\ [][NextRender]_vars

\* ------------------------------------------------------------- claims
PagesTitled(t) == { k \in 1..Len(pages) : pages[k].title = t }

\* The step taken appended to the history a write for title t by a call that
\* returned Ok.
PublishedNow(t) ==
    /\ Len(pubs') = Len(pubs) + 1
    /\ pubs'[Len(pubs')].title = t
    /\ pubs'[Len(pubs')].ok

\* C1: when publish calls run one after another, after a successful call for
\* a title the store holds exactly one page with that title, the page whose
\* id the call returned; and a successful call that directly follows another
\* successful call for the title returns the same page id and leaves the
\* page's version exactly 1 higher.
C1_IdempotentPublish ==
    /\ [](\A t \in Titles :
            last[t] # None =>
                /\ PagesTitled(t) = {last[t].id}
                /\ pages[last[t].id].version = last[t].version)
    /\ [][\A t \in Titles :
            (PublishedNow(t) /\ last[t] # None) =>
                /\ last'[t].id = last[t].id
                /\ last'[t].version = last[t].version + 1]_vars

\* The root title has been published successfully by two requests, the second
\* one leaving its page at version 2.
C1_Witness ==
    /\ nreq = 2
    /\ last[RootTitle] # None
    /\ last[RootTitle].version = 2
    /\ \E i \in 1..Len(pubs) :
          pubs[i].rid = 2 /\ pubs[i].title = RootTitle /\ pubs[i].ok /\ pubs[i].op = "update"

\* Tasks p and q have each searched the same title without result and then
\* created a page for it successfully.
BothCreated(p, q) ==
    /\ p # q
    /\ call[p].pc = "ok" /\ call[q].pc = "ok"
    /\ call[p].title = call[q].title
    /\ call[p].found = None /\ call[q].found = None
    /\ call[p].wreq # None /\ call[p].wreq.op = "create"
    /\ call[q].wreq # None /\ call[q].wreq.op = "create"

\* C2: when two overlapping publish calls for one title have both searched it
\* without result and both created a page, the calls return distinct page ids
\* and the store holds (at least) two pages with that title.
C2_DuplicateCreateRace ==
    \A p, q \in Procs :
        BothCreated(p, q) =>
            /\ call[p].result # call[q].result
            /\ Cardinality(PagesTitled(call[p].title)) >= 2

\* Both root publishes of two overlapping requests created a page for the title
\* that no page had before.
C2_Witness ==
    \E p, q \in Procs :
        /\ BothCreated(p, q)
        /\ call[p].title = RootTitle
        /\ hpc[p] = "root" /\ hpc[q] = "root"
        /\ Cardinality(PagesTitled(RootTitle)) = 2

\* The ok entry of the history for part k of request rid, if any.
PublishedOk(rid, k) ==
    { i \in 1..Len(pubs) : pubs[i].rid = rid /\ pubs[i].part = k /\ pubs[i].ok }

\* C3: a child publish of a snapshot request is in flight only after the root
\* publish of that request has returned Ok, it is given the id the root publish
\* returned, and every page a child publish creates has that id as its parent.
C3_RootBeforeChildren ==
    /\ \A p \in Procs :
          hpc[p] = "children" =>
              /\ rootRes[p] # 0
              /\ call[p].under = rootRes[p]
              /\ \E i \in PublishedOk(req[p].rid, 0) : pubs[i].id = rootRes[p]
    /\ \A j \in 1..Len(pubs) :
          pubs[j].part > 0 =>
              \E i \in PublishedOk(pubs[j].rid, 0) :
                  /\ i < j
                  /\ pubs[j].op = "create" => pages[pubs[j].id].parent = pubs[i].id

\* A child page was created under the root page of its request.
C3_Witness ==
    \E j \in 1..Len(pubs) :
        /\ pubs[j].part > 0
        /\ pubs[j].op = "create"
        /\ pages[pubs[j].id].parent # 0
        /\ pages[pages[pubs[j].id].parent].title = RootTitle

\* The request of task p has been answered because the publish of child
\* idx[p] failed.
ChildFailed(p) ==
    /\ hpc[p] = "responded"
    /\ call[p].pc = "failed"
    /\ call[p].under # 0

Children(p) == req[p].tree.children

\* C4 as stated: once a snapshot request whose root was published is answered,
\* every child other than one whose publish failed has been published.
C4_FailureAbortsChildOnly ==
    \A p \in Procs :
        (hpc[p] = "responded" /\ rootRes[p] # 0) =>
            \A k \in 1..Len(Children(p)) :
                ~(ChildFailed(p) /\ k = idx[p]) => PublishedOk(req[p].rid, k) # {}

\* C4 amended: a child's publish is begun only when every child before it in
\* the list was published, so the failure of a child's publish ends the
\* request: the children before it are published, the last call made is the
\* failed one, and no child after it has written to the store.
C4_FailureEndsChildren ==
    \A p \in Procs :
        /\ hpc[p] = "children" =>
              \A k \in 1..(idx[p] - 1) : PublishedOk(req[p].rid, k) # {}
        /\ ChildFailed(p) =>
              /\ \A k \in 1..(idx[p] - 1) : PublishedOk(req[p].rid, k) # {}
              /\ call[p].title = Children(p)[idx[p]].title
              /\ call[p].body = Children(p)[idx[p]].body
              /\ \A i \in 1..Len(pubs) : pubs[i].rid = req[p].rid => pubs[i].part <= idx[p]

\* The first of two children failed and the request was answered.
C4_Witness ==
    \E p \in Procs :
        /\ ChildFailed(p)
        /\ idx[p] = 1
        /\ Len(Children(p)) = 2
        /\ PublishedOk(req[p].rid, 2) = {}

\* The response names the failed child in a 500 error.
ChildErrorResponse(p) ==
    /\ resp[p] # None
    /\ resp[p].code = INTERNAL_SERVER_ERROR
    /\ resp[p].status = "error"
    /\ resp[p].what = "Failed to publish child page"
    /\ resp[p].detail = Children(p)[idx[p]].title

\* The page written by the publish of part k still has the body and version
\* that publish gave it.
KeepsOwnPublish(p, k) ==
    \A i \in PublishedOk(req[p].rid, k) :
        /\ pubs[i].id <= Len(pages)
        /\ pages[pubs[i].id].body = pubs[i].body
        /\ pages[pubs[i].id].version = pubs[i].version

\* C5 as stated: when a child's publish fails, the response is an error naming
\* the child, and the root page and every sibling published before keep the
\* content and version their own publish gave them.
C5_SiblingsKeepOwnPublish ==
    \A p \in Procs :
        ChildFailed(p) =>
            /\ ChildErrorResponse(p)
            /\ \A k \in 0..(idx[p] - 1) : KeepsOwnPublish(p, k)

\* No child after k, up to the failed one, has the title of child k.
TitleNotReused(p, k) ==
    \A m \in (k + 1)..idx[p] : m >= 1 => (k = 0 \/ Children(p)[m].title # Children(p)[k].title)

\* C5 amended: when a child's publish fails, the response is an error naming
\* the child, and the root page and every sibling published before whose title
\* no later child up to the failed one shares keep the content and version
\* their own publish gave them.
C5_DistinctSiblingsKeepOwnPublish ==
    \A p \in Procs :
        ChildFailed(p) =>
            /\ ChildErrorResponse(p)
            /\ \A k \in 0..(idx[p] - 1) : TitleNotReused(p, k) => KeepsOwnPublish(p, k)

\* The second child failed after a first child with another title was published.
C5_Witness ==
    \E p \in Procs :
        /\ ChildFailed(p)
        /\ idx[p] = 2
        /\ TitleNotReused(p, 1)
        /\ PublishedOk(req[p].rid, 1) # {}
        /\ PublishedOk(req[p].rid, 0) # {}

\* The step taken is the parent search of task p's call, answered with a
\* decodable success listing no page or with 404.
ParentSearchFoundNone(p) ==
    /\ call[p].pc = "parent"
    /\ call'[p] # call[p]
    /\ LET answer == call'[p].log[Len(call'[p].log)]
       IN  \/ answer.status = NOT_FOUND
           \/ /\ is_success(answer.status) /\ answer.json
              /\ SearchResults(pages, req[p].parent_page) = <<>>

\* C6: when a publish call on the create path resolves a non-empty parent
\* title and the parent search finds no page, the call fails with an error
\* naming the parent title, no create request is sent, and the store is
\* unchanged.
C6_UnresolvedParentFails ==
    [][ \A p \in Procs :
          ParentSearchFoundNone(p) =>
              /\ call'[p].pc = "failed"
              /\ call'[p].err = Failure("parent page not found", req[p].parent_page)
              /\ req[p].parent_page # NoParent
              /\ call'[p].wreq = None
              /\ \A i \in 1..Len(call'[p].log) : call'[p].log[i].op # "create"
              /\ pages' = pages ]_vars

\* A root publish failed because the configured parent page does not exist.
C6_Witness ==
    \E p \in Procs :
        /\ call[p].pc = "failed"
        /\ call[p].err.kind = "parent page not found"
        /\ call[p].err.detail = ParentTitle
        /\ PagesTitled(ParentTitle) = {}
        /\ Len(call[p].log) = 2

\* C7 as stated: a non-success answer to any request of a publish call makes
\* the call fail, and it is the last request of the call.
C7_NonSuccessIsFatal ==
    \A p \in Procs :
        \A i \in 1..Len(call[p].log) :
            ~is_success(call[p].log[i].status) =>
                /\ call[p].pc = "failed"
                /\ i = Len(call[p].log)

TitleSearch404(e) == e.op = "search" /\ e.status = NOT_FOUND

\* C7 amended: a non-success answer to any request of a publish call, other
\* than a 404 answer to the title search, makes the call fail, and it is the
\* last request of the call; a 404 answer to the title search is taken as "no
\* such page" and the call goes on along the create path.
C7_NonSuccessIsFatalExceptSearch404 ==
    \A p \in Procs :
        \A i \in 1..Len(call[p].log) :
            LET e == call[p].log[i]
            IN  /\ (~is_success(e.status) /\ ~TitleSearch404(e)) =>
                      /\ call[p].pc = "failed"
                      /\ i = Len(call[p].log)
                /\ TitleSearch404(e) =>
                      /\ call[p].found = None
                      /\ call[p].pc \in {"parent", "create", "ok", "failed"}
                      /\ i < Len(call[p].log) =>
                            call[p].log[i + 1].op \in {"parent search", "create"}
                      /\ call[p].pc = "failed" => i < Len(call[p].log)

\* A call went on to create its page after a 404 answer to the title search.
C7_Witness ==
    \E p \in Procs :
        /\ call[p].pc = "ok"
        /\ TitleSearch404(call[p].log[1])
        /\ call[p].wreq.op = "create"
        /\ \E i \in 1..Len(pubs) : pubs[i].op = "create" /\ pubs[i].id = call[p].result

\* C8: a publish call whose title search found a page sends, as its only
\* write, an update addressed to that page's id with the found version plus 1
\* and the call's body, and never a create; the page found is the first page
\* of that title and the version is the store's version of it (1 when the
\* store lists none).
C8_UpdateFoundPage ==
    \A p \in Procs :
        call[p].found # None =>
            /\ call[p].pc = "update" =>
                  /\ call[p].wreq = None
                  /\ call[p].found[1] \in PagesTitled(call[p].title)
                  /\ \A k \in PagesTitled(call[p].title) : call[p].found[1] <= k
                  /\ call[p].found[2] =
                        IF pages[call[p].found[1]].version = NoVersion THEN 1
                        ELSE pages[call[p].found[1]].version
            /\ call[p].wreq # None =>
                  call[p].wreq = [op |-> "update", id |-> call[p].found[1],
                                  title |-> call[p].title, body |-> call[p].body,
                                  number |-> call[p].found[2] + 1]
            /\ \A i \in 1..Len(call[p].log) :
                  call[p].log[i].op \in {"search", "update"}

\* An update was sent for a page found at version 2, and applied.
C8_Witness ==
    \E p \in Procs :
        /\ call[p].pc = "ok"
        /\ call[p].found # None
        /\ call[p].found[2] = 2
        /\ call[p].wreq.op = "update"
        /\ pages[call[p].result].version = 3
        /\ pages[call[p].result].body = call[p].body

\* The write requests among the requests task p's call has issued.
Writes(p) ==
    { i \in 1..Len(call[p].log) : call[p].log[i].op \in {"create", "update"} }

\* The history entries of task p's call.
OwnPubs(p) ==
    { i \in 1..Len(pubs) : pubs[i].rid = req[p].rid /\ pubs[i].part = idx[p] }

\* A step changes the store only as the one write request sent in that step
\* says: a create appends one page, an update replaces the addressed page.
WriteFrame ==
    pages' # pages =>
        \E p \in Procs :
            /\ call[p].wreq = None /\ call'[p].wreq # None
            /\ LET w == call'[p].wreq
               IN  \/ /\ w.op = "create"
                      /\ Len(pages') = Len(pages) + 1
                      /\ \A i \in 1..Len(pages) : pages'[i] = pages[i]
                      /\ pages'[Len(pages')].title = w.title
                   \/ /\ w.op = "update"
                      /\ Len(pages') = Len(pages)
                      /\ \A i \in 1..Len(pages) : i # w.id => pages'[i] = pages[i]

\* C9: a publish call that returned Ok has issued exactly one write request,
\* a create or an update, which the store applied once; a call that failed
\* without issuing a write has written nothing; and every step that changes
\* the store changes only the page its write request creates or addresses.
C9_OneWritePerPublish ==
    /\ [](\A p \in Procs :
            /\ call[p].pc = "ok" =>
                  /\ Cardinality(Writes(p)) = 1
                  /\ \A i \in Writes(p) : is_success(call[p].log[i].status)
                  /\ Cardinality(OwnPubs(p)) = 1
            /\ (call[p].pc = "failed" /\ Writes(p) = {}) =>
                  /\ call[p].wreq = None
                  /\ OwnPubs(p) = {})
    /\ [][WriteFrame]_vars

\* A call updated one page of a store that holds other pages, and returned Ok.
C9_Witness ==
    \E p \in Procs :
        /\ call[p].pc = "ok"
        /\ call[p].wreq.op = "update"
        /\ Len(pages) >= 3
        /\ Cardinality(OwnPubs(p)) = 1

Count(p, ops) == Cardinality({ i \in 1..Len(call[p].log) : call[p].log[i].op \in ops })

\* An answer the call fails on: a non-success status other than a 404 to the
\* title search, or a success whose body does not decode.
FailedAnswer(e) ==
    \/ ~is_success(e.status) /\ ~TitleSearch404(e)
    \/ is_success(e.status) /\ ~e.json

\* C10: a publish call issues the title search exactly once and first, the
\* parent search at most once, and at most one write (create or update),
\* whatever the answers are; an answer the call fails on is the last request of
\* the call.
C10_NoRetry ==
    \A p \in Procs :
        /\ Count(p, {"search"}) <= 1
        /\ call[p].pc \in {"parent", "create", "update", "ok", "failed"} =>
              /\ Count(p, {"search"}) = 1
              /\ call[p].log[1].op = "search"
        /\ Count(p, {"parent search"}) <= 1
        /\ Count(p, {"create", "update"}) <= 1
        /\ \A i \in 1..Len(call[p].log) :
              FailedAnswer(call[p].log[i]) =>
                  /\ i = Len(call[p].log)
                  /\ call[p].pc = "failed"

\* A call failed on the answer to its create, after one title search and one
\* parent search, and has issued nothing since.
C10_Witness ==
    \E p \in Procs :
        /\ call[p].pc = "failed"
        /\ Len(call[p].log) = 3
        /\ call[p].log[2].op = "parent search"
        /\ call[p].log[3].op = "create"
        /\ ~is_success(call[p].log[3].status)
        /\ hpc[p] = "responded"

\* The request task p serves is a diff request whose data parse_diff_data
\* rejects (the root or a category value is no object).
StructuralError(p) == diff[p] # NoDiff /\ ~parse_diff_data(diff[p].data).ok

\* The response of task p reports a record that was not found.
NotFoundRecord(p) == resp[p].what \in {"Snapshot not found", "Diff not found"}

\* C11 (as claimed): the handlers answer a structural error and a not-found
\* record with a 4xx status, a failed publish call (remote-store failure or
\* undecodable remote response) with a 5xx status, and every error response
\* carries status "error" and a message.
C11_ErrorStatusClasses ==
    \A p \in Procs :
        hpc[p] = "responded" =>
            /\ resp[p].code # STATUS_OK => resp[p].status = "error" /\ resp[p].what # ""
            /\ StructuralError(p) => resp[p].code \in 400..499
            /\ NotFoundRecord(p) => resp[p].code \in 400..499
            /\ call[p].pc = "failed" => resp[p].code \in 500..599

\* C12: in handle_diff, when parse_diff_data fails the request ends with an
\* error response; no page is rendered, no publish call is begun (so no
\* search, create or update is sent) and no write of the request exists.
C12_ParseFailureEndsDiff ==
    \A p \in Procs :
        StructuralError(p) =>
            /\ hpc[p] \in {"parse", "responded"}
            /\ hpc[p] = "responded" => resp[p].status = "error"
            /\ diff[p].page = None
            /\ call[p] = NoCall
            /\ \A i \in 1..Len(pubs) : pubs[i].rid # req[p].rid

C12_Witness ==
    \E p \in Procs :
        /\ StructuralError(p)
        /\ hpc[p] = "responded"
        /\ resp[p].what = "Failed to parse diff data"
        /\ nreq = MaxRequests
        /\ Len(pages) > 1

\* ---------------------------------------------- claims on the diff flattener
\* parse_changed_item was applied to arg and returned an item.
ParsedItem == ret # None /\ ret.fn = "parse_changed_item" /\ ret.val # None

\* The key chains that exist in a value, the empty chain included.
RECURSIVE Chains(_)
Chains(value) ==
    IF ~is_object(value) THEN { <<>> }
    ELSE { <<>> } \cup UNION { { <<k>> \o c : c \in Chains(value.v[k]) } : k \in DOMAIN value.v }

\* The node a key chain leads to.
RECURSIVE NodeAt(_, _)
NodeAt(value, chain) ==
    IF chain = <<>> THEN value ELSE NodeAt(value.v[Head(chain)], Tail(chain))

\* k1.k2. ... .kn
RECURSIVE JoinDots(_)
JoinDots(chain) ==
    IF Len(chain) = 1 THEN chain[1] ELSE chain[1] \o "." \o JoinDots(Tail(chain))

HoldsArray(node, key) == key \in DOMAIN node.v /\ node.v[key].kind = "array"

IsLeafNode(node) == is_object(node) /\ {"old", "new"} \subseteq DOMAIN node.v

IsListDiff(node) ==
    /\ is_object(node)
    /\ ~IsLeafNode(node)
    /\ HoldsArray(node, "added") \/ HoldsArray(node, "removed")

IsRecursed(node) == is_object(node) /\ ~IsLeafNode(node) /\ ~IsListDiff(node)

\* The chains whose node the flattener comes to: every node above it is
\* recursed into.
VisitedChains(changes) ==
    { c \in Chains(changes) :
        /\ c # <<>>
        /\ \A i \in 1..(Len(c) - 1) : IsRecursed(NodeAt(changes, SubSeq(c, 1, i))) }

LeavesAt(changes, path) ==
    { c \in VisitedChains(changes) : IsLeafNode(NodeAt(changes, c)) /\ JoinDots(c) = path }

ListDiffsAt(changes, path) ==
    { c \in VisitedChains(changes) : IsListDiff(NodeAt(changes, c)) /\ JoinDots(c) = path }

Occurrences(list, path) == Cardinality({ i \in 1..Len(list) : list[i].field_path = path })

\* The records with this path are exactly those of the visited leaves and list
\* sub-diffs with this path.
NothingElseAt(changes, item, path) ==
    /\ Occurrences(item.changes, path) = Cardinality(LeavesAt(changes, path))
    /\ Occurrences(item.nested_diffs, path) = Cardinality(ListDiffsAt(changes, path))

\* The chains below chain c.
Below(changes, c) ==
    { c2 \in Chains(changes) : Len(c2) > Len(c) /\ SubSeq(c2, 1, Len(c)) = c }

DisplayList(node, key) ==
    IF HoldsArray(node, key)
    THEN [i \in 1..Len(node.v[key].v) |-> format_value(node.v[key].v[i])]
    ELSE <<>>

\* C13: an object node with both an "old" and a "new" key is a leaf change
\* whatever other keys it has: one FieldChange for it, no NestedFieldDiff for
\* it even when it holds "added" / "removed" arrays, and nothing from the
\* nodes below it.
C13_LeafRuleWins ==
    ParsedItem =>
        LET changes == arg.v["changes"]
            item == ret.val
        IN  \A c \in VisitedChains(changes) :
                IsLeafNode(NodeAt(changes, c)) =>
                    /\ \E i \in 1..Len(item.changes) :
                           item.changes[i].field_path = JoinDots(c)
                    /\ NothingElseAt(changes, item, JoinDots(c))
                    /\ \A c2 \in Below(changes, c) :
                           NothingElseAt(changes, item, JoinDots(c2))

C13_Witness ==
    /\ ParsedItem
    /\ \E c \in VisitedChains(arg.v["changes"]) :
           LET node == NodeAt(arg.v["changes"], c)
           IN  IsLeafNode(node) /\ HoldsArray(node, "added")
    /\ Len(ret.val.changes) = 1
    /\ ret.val.nested_diffs = <<>>

\* C14: an object node that is no leaf yields one NestedFieldDiff with the
\* current path, and nothing from below it, if and only if "added" or
\* "removed" holds an array; a key of the pair that is absent or holds no
\* array contributes an empty list; otherwise the node is recursed into key by
\* key.
C14_ListDiffRule ==
    ParsedItem =>
        LET changes == arg.v["changes"]
            item == ret.val
        IN  \A c \in VisitedChains(changes) :
                LET node == NodeAt(changes, c)
                IN  is_object(node) /\ ~IsLeafNode(node) =>
                        /\ NothingElseAt(changes, item, JoinDots(c))
                        /\ IF HoldsArray(node, "added") \/ HoldsArray(node, "removed")
                           THEN /\ \E i \in 1..Len(item.nested_diffs) :
                                       item.nested_diffs[i] =
                                           NestedFieldDiff(JoinDots(c),
                                                           DisplayList(node, "added"),
                                                           DisplayList(node, "removed"))
                                /\ \A c2 \in Below(changes, c) :
                                       NothingElseAt(changes, item, JoinDots(c2))
                           ELSE \A k \in DOMAIN node.v :
                                    /\ Append(c, k) \in VisitedChains(changes)
                                    /\ NothingElseAt(changes, item, JoinDots(Append(c, k)))

C14_Witness ==
    /\ ParsedItem
    /\ \E c \in VisitedChains(arg.v["changes"]) :
           LET node == NodeAt(arg.v["changes"], c)
           IN  /\ Len(c) > 1
               /\ IsListDiff(node)
               /\ "added" \in DOMAIN node.v /\ ~HoldsArray(node, "added")
               /\ ret.val.nested_diffs = << NestedFieldDiff(JoinDots(c), <<>>, <<>>) >>

\* C15: a leaf change reached through the keys k1, ..., kn yields one
\* FieldChange with field_path k1.k2. ... .kn and the display strings of the
\* leaf's old and new values; a node that is no object yields nothing.
C15_DottedPath ==
    ParsedItem =>
        LET changes == arg.v["changes"]
            item == ret.val
            visited == VisitedChains(changes)
        IN  /\ Len(item.changes) =
                   Cardinality({ c \in visited : IsLeafNode(NodeAt(changes, c)) })
            /\ \A c \in visited :
                   LET node == NodeAt(changes, c)
                   IN  /\ IsLeafNode(node) =>
                              \E i \in 1..Len(item.changes) :
                                  item.changes[i] =
                                      FieldChange(JoinDots(c), format_value(node.v["old"]),
                                                  format_value(node.v["new"]))
                       /\ ~is_object(node) => NothingElseAt(changes, item, JoinDots(c))

C15_Witness ==
    /\ ParsedItem
    /\ \E c \in VisitedChains(arg.v["changes"]) :
           /\ Len(c) = 3
           /\ IsLeafNode(NodeAt(arg.v["changes"], c))
           /\ ret.val.changes = << FieldChange("a.b.a", "A", "B") >>

\* C16 (as claimed): in a parsed ChangedItem each field_path occurs at most
\* once across changes and nested_diffs together.
C16_PathsUnique ==
    ParsedItem =>
        LET item == ret.val
            paths == [i \in 1..Len(item.changes) |-> item.changes[i].field_path]
                     \o [i \in 1..Len(item.nested_diffs) |-> item.nested_diffs[i].field_path]
        IN  \A i, j \in 1..Len(paths) : i # j => paths[i] # paths[j]

\* ------------------------------------------------- claims on the diff parser
\* parse_diff_data was applied to arg.
ParsedRoot == ret # None /\ ret.fn = "parse_diff_data"

\* The root, or one of its category values, is no object.
Malformed(root) == ~is_object(root) \/ \E k \in DOMAIN root.v : ~is_object(root.v[k])

\* C17: parse_diff_data returns an error and no report when the root or any
\* category value is no object, even if other categories are well-formed;
\* otherwise a report with one CategoryDiff per top-level key.
C17_ParseAllOrNothing ==
    ParsedRoot =>
        IF Malformed(arg)
        THEN ~ret.val.ok /\ "report" \notin DOMAIN ret.val
        ELSE /\ ret.val.ok
             /\ DOMAIN ret.val.report = DOMAIN arg.v
             /\ \A k \in DOMAIN arg.v :
                    DOMAIN ret.val.report[k] = {"added", "removed", "changed"}

C17_Witness ==
    /\ ParsedRoot
    /\ is_object(arg)
    /\ DOMAIN arg.v = {"attributes", "families"}
    /\ is_object(arg.v["attributes"])
    /\ ~is_object(arg.v["families"])
    /\ ~ret.val.ok

\* An entry of a "changed" array that is an object with a string "code" and an
\* object "changes".
WellFormedEntry(entry) ==
    /\ is_object(entry)
    /\ {"code", "changes"} \subseteq DOMAIN entry.v
    /\ entry.v["code"].kind = "string"
    /\ is_object(entry.v["changes"])

\* The array under a key of a category, empty when absent or no array.
ListUnder(cat, key) ==
    IF key \in DOMAIN cat /\ cat[key].kind = "array" THEN cat[key].v ELSE <<>>

\* C18: the changed list of a parsed category holds exactly the well-formed
\* entries of the "changed" array, in their order; the other entries are
\* dropped, the parse does not fail, and added and removed are as given.
C18_MalformedEntriesDropped ==
    ParsedRoot /\ ~Malformed(arg) =>
        /\ ret.val.ok
        /\ \A k \in DOMAIN arg.v :
               LET cat == arg.v[k].v
                   good == SelectSeq(ListUnder(cat, "changed"), WellFormedEntry)
                   got == ret.val.report[k]
               IN  /\ Len(got.changed) = Len(good)
                   /\ \A i \in 1..Len(good) :
                          /\ got.changed[i].code = good[i].v["code"].v
                          /\ got.changed[i] = parse_changed_item(good[i])
                   /\ got.added = ListUnder(cat, "added")
                   /\ got.removed = ListUnder(cat, "removed")

C18_Witness ==
    /\ ParsedRoot
    /\ ~Malformed(arg)
    /\ \E k \in DOMAIN arg.v :
           LET raw == ListUnder(arg.v[k].v, "changed")
           IN  /\ Len(raw) = 2
               /\ ~WellFormedEntry(raw[1])
               /\ WellFormedEntry(raw[2])
               /\ Len(ret.val.report[k].changed) = 1
               /\ ret.val.report[k].changed[1].code = "p"
               /\ ret.val.report[k].added # <<>>

\* ------------------------------------------ claims on the property extractor
\* extract_item_properties was applied to arg.
Extracted == ret # None /\ ret.fn = "extract_item_properties"

\* C19 (as claimed): the list extract_item_properties returns has no two
\* entries with the same label, whatever the item's field names.
C19_LabelsUnique ==
    Extracted =>
        \A i, j \in 1..Len(ret.val) : i # j => ret.val[i].label # ret.val[j].label

\* null, false, the empty list and the empty object.
NoiseValues == { JNull, JBool(FALSE), JArray(<<>>), JObject(EmptyMap) }

HasEntry(label) == \E i \in 1..Len(ret.val) : ret.val[i].label = label

\* C20 (as claimed): no entry for any field whose value is null, false, an
\* empty list or an empty object, priority fields and locale entries of
\* "labels" included; an item whose fields all hold such values yields no
\* entry.
C20_NoiseSuppressedEverywhere ==
    Extracted /\ is_object(arg) =>
        LET obj == arg.v IN
        /\ \A k \in DOMAIN obj : obj[k] \in NoiseValues => ~HasEntry(k)
        /\ "labels" \in DOMAIN obj /\ is_object(obj["labels"]) =>
               \A l \in DOMAIN obj["labels"].v :
                   obj["labels"].v[l] \in NoiseValues => ~HasEntry("label (" \o l \o ")")
        /\ (\A k \in DOMAIN obj : obj[k] \in NoiseValues) => ret.val = <<>>

\* C20 (amended): only the remaining fields (no priority field, not "labels",
\* not on the skip list) are suppressed when they hold null, false, an empty
\* list or an empty object; a priority field is left out only when absent or
\* null, and every locale of an object "labels" has an entry. The entries are
\* one per such priority field, locale and remaining field, and no other.
C20_NoiseSuppressedInRemainingFields ==
    Extracted /\ is_object(arg) =>
        LET obj == arg.v
            priority == { f \in {"code", "type", "group"} :
                            f \in DOMAIN obj /\ obj[f] # JNull }
            locales == IF "labels" \in DOMAIN obj /\ is_object(obj["labels"])
                       THEN DOMAIN obj["labels"].v ELSE {}
            remaining == { k \in DOMAIN obj \ skip_fields : obj[k] \notin NoiseValues }
        IN  /\ Len(ret.val) =
                   Cardinality(priority) + Cardinality(locales) + Cardinality(remaining)
            /\ \A f \in priority : HasEntry(f)
            /\ \A l \in locales : HasEntry("label (" \o l \o ")")
            /\ \A k \in remaining : HasEntry(k)

C20_Witness ==
    /\ Extracted
    /\ is_object(arg)
    /\ DOMAIN arg.v = {"code", "labels", "flag"}
    /\ arg.v["code"] = JBool(FALSE)
    /\ arg.v["flag"] = JBool(FALSE)
    /\ arg.v["labels"] = JObject([en_US |-> JNull])
    /\ ret.val = << Property("code", "false"), Property("label (en_US)", "null") >>

\* ------------------------------------------------ claims on the page tree
\* The body render_snapshot_pages gives the root page of request rid when the
\* payload root is no object.
PlaceholderBody(rid) == <<rid, 0, "No data available">>

\* The writes of request rid in the history.
WritesOf(rid) == { i \in 1..Len(pubs) : pubs[i].rid = rid }

\* C26: for a payload whose root is no object render_snapshot_pages returns
\* the "No data available" root body and no children, and the snapshot
\* publish of such a tree publishes the root page and no child page.
C26_NonObjectPlaceholder ==
    /\ \A data \in { JNull, JString("x"), JNumber(1), JArray(<< JObject(EmptyMap) >>) } :
           render_snapshot_pages(1, data) =
               [root_title |-> RootTitle, root_body |-> PlaceholderBody(1),
                children |-> <<>>]
    /\ \A p \in Procs :
           req[p].tree.root_body = PlaceholderBody(req[p].rid) =>
               /\ req[p].tree.children = <<>>
               /\ hpc[p] # "children"
               /\ \A i \in WritesOf(req[p].rid) :
                      pubs[i].part = 0 /\ pubs[i].body = PlaceholderBody(req[p].rid)
               /\ hpc[p] = "responded" /\ resp[p].status = "ok" =>
                      \E i \in WritesOf(req[p].rid) :
                          /\ pubs[i].ok
                          /\ WritesOf(req[p].rid) = {i}
                          /\ pages[pubs[i].id].body = PlaceholderBody(req[p].rid)

C26_Witness ==
    \E p \in Procs :
        /\ req[p].rid # 0
        /\ req[p].tree.root_body = PlaceholderBody(req[p].rid)
        /\ hpc[p] = "responded"
        /\ resp[p].status = "ok"
        /\ \E k \in 1..Len(pages) : pages[k].body = PlaceholderBody(req[p].rid)

\* C27: when the title search of publish_page finds a page, the call sends no
\* parent search and no create, its update carries no ancestor, it does not
\* fail for a missing parent page, and no write changes the parent of a page
\* that exists.
C27_ParentOnlyOnCreate ==
    /\ [](\A p \in Procs :
             call[p].under = 0 /\ call[p].found # None =>
                 /\ \A i \in 1..Len(call[p].log) :
                        call[p].log[i].op \notin {"parent search", "create"}
                 /\ call[p].parent_id = 0
                 /\ call[p].wreq # None =>
                        call[p].wreq.op = "update" /\ "ancestor" \notin DOMAIN call[p].wreq
                 /\ call[p].pc = "failed" => call[p].err.kind # "parent page not found")
    /\ [][\A k \in 1..Len(pages) : pages'[k].parent = pages[k].parent]_vars

C27_Witness ==
    \E p \in Procs :
        /\ call[p].under = 0
        /\ call[p].found # None
        /\ call[p].pc = "ok"
        /\ req[p].parent_page = ParentTitle
        /\ PagesTitled(ParentTitle) = {}

\* C29: a title search that finds pages reports the first of them, with
\* version 1 when the store lists it without version metadata; the update that
\* follows carries version 2 in that case, is applied to that first page, and
\* leaves every other page of the store as it was.
C29_FirstResultVersionDefault ==
    [][\A p \in Procs :
          /\ (call[p].pc = "search" /\ call'[p].found # None) =>
                LET k == call'[p].found[1]
                IN  /\ k \in PagesTitled(call[p].title)
                    /\ \A j \in PagesTitled(call[p].title) : k <= j
                    /\ pages[k].version = NoVersion => call'[p].found[2] = 1
          /\ (call[p].pc = "update" /\ call'[p].pc # "update") =>
                LET k == call[p].found[1]
                IN  /\ pages[k].version = NoVersion => call'[p].wreq.number = 2
                    /\ call'[p].wreq.id = k
                    /\ Len(pages') = Len(pages)
                    /\ \A j \in 1..Len(pages) : j # k => pages'[j] = pages[j] ]_vars

\* Of two pages with one title the first, listed without version, was updated
\* to version 2 and the second is as it was.
C29_Witness ==
    \E p \in Procs :
        /\ call[p].pc = "ok"
        /\ call[p].wreq.op = "update"
        /\ call[p].wreq.number = 2
        /\ Cardinality(PagesTitled(call[p].title)) = 2
        /\ call[p].wreq.id = 1
        /\ pages[1].version = 2
        /\ pages[2] = StoredTwice[2]

\* The titles of the child pages of request p's tree.
ChildTitles(p) == { Children(p)[i].title : i \in 1..Len(Children(p)) }

\* The write of request rid for part k of its tree (0 = root).
WriteOfPart(rid, k) == CHOOSE i \in WritesOf(rid) : pubs[i].part = k

\* C28: the root title is "Current model" and a child title is made of the
\* family's first label and code only; once a snapshot request is answered
\* with success, a child whose title an earlier child of the tree carries was
\* published as an update of the page the earlier one wrote, and the store
\* holds one page per distinct child title.
C28_OnePagePerChildTitle ==
    \A p \in Procs :
        /\ req[p].tree.root_title = <<"Current model">>
        /\ (req[p].rid # 0 /\ hpc[p] = "responded" /\ resp[p].status = "ok") =>
              /\ \A i, j \in 1..Len(Children(p)) :
                     (i < j /\ Children(p)[i].title = Children(p)[j].title) =>
                         /\ pubs[WriteOfPart(req[p].rid, j)].op = "update"
                         /\ pubs[WriteOfPart(req[p].rid, j)].id =
                                pubs[WriteOfPart(req[p].rid, i)].id
              /\ Cardinality({ k \in 1..Len(pages) : pages[k].title \in ChildTitles(p) })
                     = Cardinality(ChildTitles(p))

\* A tree of two children with one title was published with success.
C28_Witness ==
    \E p \in Procs :
        /\ req[p].rid # 0
        /\ hpc[p] = "responded"
        /\ resp[p].status = "ok"
        /\ Len(Children(p)) = 2
        /\ Cardinality(ChildTitles(p)) = 1
        /\ Cardinality({ k \in 1..Len(pages) : pages[k].title \in ChildTitles(p) }) = 1

\* Request p was answered for a record or a configuration that could not be
\* fetched.
FetchFailure(p) ==
    /\ hpc[p] = "responded"
    /\ resp[p].what \in {"Snapshot not found", "Diff not found",
                          "Failed to fetch Confluence configuration"}

\* C30: in both handlers no request is sent to the store before the record
\* and the configuration are fetched; a failed fetch is answered with an error
\* response without any search, create or update and with the store as it
\* was; a success response carries the root page and is given only when the
\* root and every child of the tree have been written with success.
C30_FetchFirstSuccessLast ==
    /\ [](\A p \in Procs :
             /\ hpc[p] \in {"idle", "config", "parse", "diffconfig"} =>
                   call[p] = NoCall /\ WritesOf(req[p].rid) = {}
             /\ FetchFailure(p) =>
                   /\ resp[p].status = "error"
                   /\ call[p].log = <<>>
                   /\ WritesOf(req[p].rid) = {}
             /\ (hpc[p] = "responded" /\ resp[p].status = "ok") =>
                   /\ resp[p].what = "page_url"
                   /\ call[p].pc = "ok"
                   /\ \A k \in 0..Len(Children(p)) :
                          \E i \in WritesOf(req[p].rid) : pubs[i].part = k /\ pubs[i].ok
                   /\ \E i \in WritesOf(req[p].rid) :
                          pubs[i].part = 0 /\ pubs[i].id = resp[p].detail)
    /\ [][\A p \in Procs :
             (hpc[p] \in {"idle", "config", "diffconfig"} /\ hpc'[p] = "responded") =>
                 /\ FetchFailure(p)'
                 /\ pages' = pages
                 /\ pubs' = pubs
                 /\ call' = call ]_vars

\* After an earlier request published the root page, a diff request was
\* parsed and then answered with the failure of the configuration fetch.
C30_Witness ==
    \E p \in Procs :
        /\ FetchFailure(p)
        /\ resp[p].what = "Failed to fetch Confluence configuration"
        /\ diff[p] # NoDiff
        /\ last[RootTitle] # None
        /\ pages # <<>>

\* ------------------------------------------------ claims on the renderer
ItemTable == ret # None /\ ret.fn = "render_item_table"

\* The property lists of the items tabulated and their labels in list order.
AllProps == [i \in 1..Len(arg.v) |-> extract_item_properties(arg.v[i])]
AllLabels == labels_of(AllProps)
FirstAt(label) ==
    CHOOSE k \in 1..Len(AllLabels) :
        AllLabels[k] = label /\ \A j \in 1..(k - 1) : AllLabels[j] # label

\* C22: the columns of render_item_table are the labels of the tabulated
\* items' properties, each once, ordered by first occurrence over the items in
\* list order; there is one row per item with one cell per column; the cell of
\* an item without a property for the column holds the placeholder U+2014,
\* and otherwise a value of that property.
C22_ColumnsUnionFirstSeen ==
    ItemTable =>
        LET columns == ret.val.header
            rows == ret.val.rows
        IN  /\ { columns[k] : k \in 1..Len(columns) }
                   = { AllLabels[k] : k \in 1..Len(AllLabels) }
            /\ \A i, j \in 1..Len(columns) :
                   i < j => FirstAt(columns[i]) < FirstAt(columns[j])
            /\ Len(rows) = Len(arg.v)
            /\ \A i \in 1..Len(rows) :
                   /\ Len(rows[i]) = Len(columns)
                   /\ \A k \in 1..Len(columns) :
                          LET mine == { j \in 1..Len(AllProps[i]) :
                                           AllProps[i][j].label = columns[k] }
                          IN  IF mine = {}
                              THEN rows[i][k].text = EM_DASH /\ rows[i][k].text # ""
                              ELSE \E j \in mine : rows[i][k].text = AllProps[i][j].value

\* Two items of different shapes were tabulated: a column first seen in the
\* second item follows the first item's, and each row has a placeholder.
C22_Witness ==
    /\ ItemTable
    /\ Len(arg.v) = 2
    /\ Len(ret.val.header) >= 2
    /\ \A i \in 1..2 : \E k \in 1..Len(ret.val.header) : ret.val.rows[i][k].text = EM_DASH
    /\ ret.val.header[1] # "code"
    /\ \E k \in 2..Len(ret.val.header) : ret.val.header[k] = "code"

DiffPage == ret # None /\ ret.fn = "render_diff_page"

\* The category names in an order that ascends by lower-cased name.
AscendingOrders(report) ==
    { names \in Orders(DOMAIN report) :
        \A i, j \in 1..Len(names) :
            i < j => ~str_lt(to_lowercase(names[j]), to_lowercase(names[i])) }

\* C21: whatever order the report's map yields its entries in, the summary
\* rows and the category sections of render_diff_page list the categories in
\* one and the same order, and that order ascends by lower-cased name.
C21_RowsAndSectionsSorted ==
    DiffPage =>
        /\ Len(ret.val.summary) = Cardinality(DOMAIN arg.v)
        /\ Len(ret.val.sections) = Cardinality(DOMAIN arg.v)
        /\ \E names \in AscendingOrders(arg.v) :
               \A i \in 1..Len(names) :
                   /\ ret.val.summary[i].category = capitalize(escape_html(names[i]))
                   /\ ret.val.summary[i].added = Len(arg.v[names[i]].added)
                   /\ ret.val.sections[i].heading = capitalize(escape_html(names[i]))
                   /\ ret.val.sections[i].added.count = Len(arg.v[names[i]].added)

\* The report with the categories Zebra, apple and Mango was rendered as
\* Apple, Mango, Zebra.
C21_Witness ==
    /\ DiffPage
    /\ DOMAIN arg.v = { <<90, 101, 98, 114, 97>>, <<97, 112, 112, 108, 101>>,
                         <<77, 97, 110, 103, 111>> }
    /\ [i \in 1..3 |-> ret.val.sections[i].heading] =
           << <<65, 112, 112, 108, 101>>, <<77, 97, 110, 103, 111>>,
              <<90, 101, 98, 114, 97>> >>

SnapshotPages == ret # None /\ ret.fn = "render_snapshot_pages"

\* The characters of the family names of the payloads.
NameChars ==
    ("a" :> <<97>>) @@ ("b" :> <<98>>) @@ ("c" :> <<99>>)
    @@ ("unknown" :> <<117, 110, 107, 110, 111, 119, 110>>)

\* The family name a child page's title shows (its label, else its code).
FamilyName(child) == NameChars[child.title[2]]

\* C23 (as claimed): the children of the page tree ascend by lower-cased
\* family name, whatever the order of the "families" array.
C23_ChildrenSortedByName ==
    SnapshotPages =>
        \A i, j \in 1..Len(ret.val.tree.children) :
            i < j => ~str_lt(to_lowercase(FamilyName(ret.val.tree.children[j])),
                             to_lowercase(FamilyName(ret.val.tree.children[i])))

\* C24: the page tree has one child per entry of the payload's "families"
\* array (none when there is no such array), and the i-th child's title names
\* the code and label of the i-th row of the families table of the root page.
C24_ChildPerFamilyRow ==
    SnapshotPages =>
        LET children == ret.val.tree.children
            rows == ret.val.families_section
        IN  /\ Len(children) = Len(get_array_of(arg.v, "families"))
            /\ Len(rows) = Len(children)
            /\ \A i \in 1..Len(children) :
                   /\ children[i].title[3] = rows[i].code
                   /\ children[i].title[2] =
                          IF rows[i].label = EM_DASH THEN rows[i].code ELSE rows[i].label
                   /\ rows[i].code = get_code(arg.v.v["families"].v[i])

\* A payload of two families, one an entry that is no object and one with a
\* label, was rendered.
C24_Witness ==
    /\ SnapshotPages
    /\ Len(ret.val.tree.children) = 2
    /\ ret.val.families_section[1].code = "unknown"
    /\ ret.val.families_section[2].label = "a"
    /\ ret.val.tree.children[2].title = <<"Family", "a", "c">>

\* C25 (as claimed): a second run of render_diff_page or render_snapshot_pages
\* on the same argument returns what the first run returned.
C25_RendersDeterministic ==
    (DiffPage \/ SnapshotPages) => ret.again = ret.val
====
